---- MODULE Spec2Model ----
(***************************************************************************)
(* Model of the balcony-calculator rule engine,                            *)
(* functions/modules/calculateMaterials.js, with the catalog lookups of    *)
(* functions/modules/materialsManager.js it calls.                         *)
(*                                                                         *)
(* Conventions.                                                            *)
(*  - A JavaScript value is a record [t, n, s, a]: t is the type tag       *)
(*    ("undefined", "number", "NaN", "string", "array", "fixed2"), n the   *)
(*    number, s the string, a the array.                                   *)
(*  - A string is a sequence of tokens; the token ":" is the colon and the *)
(*    token " " is white space, so that split(':') and trim() are          *)
(*    computed, not assumed.  The Cyrillic names of the source are written *)
(*    in Latin letters: "Glavnaya stena" = main wall, "Skrytye" = hidden,  *)
(*    "Pokraska sten" = wall painting, ...                                 *)
(*  - Room and material dimensions are integers (millimetres).  A user     *)
(*    quantity, a computed quantity and a cost are fixed-point numbers in  *)
(*    thousandths (2000 is 2.0); a price is a whole number of currency     *)
(*    units.  toFixed(2) rounds thousandths to hundredths and yields a     *)
(*    value of type "fixed2" (a string of the source).                     *)
(***************************************************************************)
EXTENDS Integers, Sequences, FiniteSets, TLC

VARIABLES
    earlier,      \* the outcomes of the calls of calculateMaterials that have returned
    parked,       \* a second call of calculateMaterials, suspended at an await
    manager,      \* materialsManager.js: the store, the category cache, the calls in flight
    fetch,        \* the run of fetchAllMaterials that SpecFetch steps through
    req,          \* the HTTP request: [hasBody, authToken, tabName, data]
    analytics,    \* "up": every analytics write succeeds; "flaky": a write may fail
    faults,       \* catalog store read failures that may still happen
    pc,           \* position of calculateMaterials
    idx,          \* index of the running for-loop of a handler
    results,      \* let results = []   (line 238)
    totalCost,    \* let totalCost = 0  (line 239), thousandths
    extraResults, \* the list the last processExtraMaterials call returned
    costed,       \* history: one entry per "totalCost += ..." executed
    calls,        \* history: the getMaterial / getMaterials calls issued
    ret,          \* what the tab handler returned
    err,          \* the error a throw carries to the catch block
    response      \* what calculateMaterials gave its caller

\* what is outside the one call of calculateMaterials the variables below belong to
outside == <<earlier, parked, manager>>

vars == <<earlier, parked, manager, fetch, req, analytics, faults, pc, idx, results,
          totalCost, extraResults, costed, calls, ret, err, response>>

----------------------------------------------------------------------------
(* Bounds of the model. *)

\* longest extraMaterials array of a request
MaxExtras == 2
\* catalog store read failures injected in one request
MaxFaults == 1

(* CONFIG, lines 7-14.  WASTE_FACTOR 1.1 is WasteNum / WasteDen,           *)
(* RAIL_WASTE_FACTOR 1.05 is RailWasteMilli thousandths, RAIL_STEP 0.5 is  *)
(* 1 / RailStepInv.                                                        *)
WasteNum == 11
WasteDen == 10
RailWasteMilli == 1050
RailStepInv == 2
RAIL_DEFAULT_LENGTH == 3000
PAINT_COVERAGE == 10
ITEMS_PER_PAGE == 100
SquareMmPerSquareM == 1000000

----------------------------------------------------------------------------
(* JavaScript values. *)

Undef == [t |-> "undefined", n |-> 0, s |-> <<>>, a |-> <<>>]
NaN == [t |-> "NaN", n |-> 0, s |-> <<>>, a |-> <<>>]
Num(x) == [t |-> "number", n |-> x, s |-> <<>>, a |-> <<>>]
Str(x) == [t |-> "string", n |-> 0, s |-> x, a |-> <<>>]
Arr(x) == [t |-> "array", n |-> 0, s |-> <<>>, a |-> x]
Fixed2(h) == [t |-> "fixed2", n |-> h, s |-> <<>>, a |-> <<>>]
Null == [t |-> "null", n |-> 0, s |-> <<>>, a |-> <<>>]
\* an object with the properties length, width and height
Obj(length, width, height) ==
    [t |-> "object", n |-> 0, s |-> <<>>, a |-> <<length, width, height>>]
\* a property an object does not have: (field in data) is false
Absent == [t |-> "absent", n |-> 0, s |-> <<>>, a |-> <<>>]

\* typeof v === 'number' (NaN is a number)
IsNumber(v) == v.t \in {"number", "NaN"}
\* typeof v === 'string'
IsString(v) == v.t = "string"
\* the truthiness of a value: !!v
Truthy(v) ==
    CASE v.t = "number" -> v.n # 0
      [] v.t = "string" -> v.s # <<>>
      [] v.t = "array" -> TRUE
      [] v.t = "object" -> TRUE
      [] OTHER -> FALSE

\* typeof v !== 'number' || isNaN(v) || v <= 0
NotPositiveNumber(v) == v.t # "number" \/ v.n <= 0

\* Number.prototype.toFixed(2) of a non-negative fixed-point number
ToFixed2(milli) == Fixed2((milli + 5) \div 10)

\* Math.ceil(a / b) for a >= 0, b > 0
CeilDiv(a, b) == (a + b - 1) \div b

(* JavaScript Number arithmetic: IEEE-754 binary64, round to nearest, ties to   *)
(* even. A Number is [m, e] with value m * 2^e; the mantissa m is a natural     *)
(* number kept as a little-endian sequence of limbs of LimbBits bits, because   *)
(* 53-bit mantissas and their products do not fit the checker's integers.       *)
LimbBits == 14
MantissaBits == 53
\* a long division yields ChunkBits quotient bits, a quotient takes QuotientChunks
\* of them
ChunkBits == 8
QuotientChunks == 7

RECURSIVE Pow2(_)
Pow2(k) == IF k = 0 THEN 1 ELSE 2 * Pow2(k - 1)

Base == Pow2(LimbBits)

RECURSIVE BigOf(_)
BigOf(n) == IF n = 0 THEN <<>> ELSE <<n % Base>> \o BigOf(n \div Base)

RECURSIVE BigToInt(_)
BigToInt(a) == IF a = <<>> THEN 0 ELSE Head(a) + Base * BigToInt(Tail(a))

Hd(a) == IF a = <<>> THEN 0 ELSE Head(a)
Tl(a) == IF a = <<>> THEN <<>> ELSE Tail(a)

RECURSIVE BigAddC(_, _, _)
BigAddC(a, b, c) ==
    IF a = <<>> /\ b = <<>> THEN (IF c = 0 THEN <<>> ELSE <<c>>)
    ELSE LET s == Hd(a) + Hd(b) + c
         IN  <<s % Base>> \o BigAddC(Tl(a), Tl(b), s \div Base)
BigAdd(a, b) == BigAddC(a, b, 0)

RECURSIVE BigNorm(_)
BigNorm(a) ==
    IF a # <<>> /\ a[Len(a)] = 0 THEN BigNorm(SubSeq(a, 1, Len(a) - 1)) ELSE a

RECURSIVE BigSubB(_, _, _)
BigSubB(a, b, borrow) ==
    IF a = <<>> THEN <<>>
    ELSE LET d == Head(a) - Hd(b) - borrow
         IN  <<IF d < 0 THEN d + Base ELSE d>>
             \o BigSubB(Tail(a), Tl(b), IF d < 0 THEN 1 ELSE 0)
\* a - b for a >= b
BigSub(a, b) == BigNorm(BigSubB(a, b, 0))

RECURSIVE BigLessFrom(_, _, _)
BigLessFrom(a, b, i) ==
    IF i = 0 THEN FALSE
    ELSE IF a[i] # b[i] THEN a[i] < b[i] ELSE BigLessFrom(a, b, i - 1)
BigLess(a, b) ==
    IF Len(a) # Len(b) THEN Len(a) < Len(b) ELSE BigLessFrom(a, b, Len(a))

RECURSIVE BigMulSmallC(_, _, _)
BigMulSmallC(a, k, c) ==
    IF a = <<>> THEN BigOf(c)
    ELSE LET p == Head(a) * k + c
         IN  <<p % Base>> \o BigMulSmallC(Tail(a), k, p \div Base)
\* a * k for 0 <= k <= Base
BigMulSmall(a, k) == IF k = 0 THEN <<>> ELSE BigMulSmallC(a, k, 0)

BigShiftLimb(a) == IF a = <<>> THEN <<>> ELSE <<0>> \o a

RECURSIVE BigMul(_, _)
BigMul(a, b) ==
    IF b = <<>> THEN <<>>
    ELSE BigAdd(BigMulSmall(a, Head(b)), BigShiftLimb(BigMul(a, Tail(b))))

BigDouble(a) == BigMulSmall(a, 2)

\* a * 2^k
RECURSIVE BigShl(_, _)
BigShl(a, k) ==
    IF k >= LimbBits THEN BigShiftLimb(BigShl(a, k - LimbBits))
    ELSE BigMulSmall(a, Pow2(k))

RECURSIVE BitLen(_)
BitLen(n) == IF n = 0 THEN 0 ELSE 1 + BitLen(n \div 2)
BigBitLen(a) == IF a = <<>> THEN 0 ELSE LimbBits * (Len(a) - 1) + BitLen(a[Len(a)])

\* from the quotient and remainder h of n by 2 * d to those of n by d
BigDivStep(h, d) ==
    IF BigLess(h.r, d) THEN [q |-> BigDouble(h.q), r |-> h.r]
    ELSE [q |-> BigAdd(BigDouble(h.q), <<1>>), r |-> BigSub(h.r, d)]

\* quotient and remainder of n by d, d > 0, one quotient bit per level
RECURSIVE BigDivMod(_, _)
BigDivMod(n, d) ==
    IF BigLess(n, d) THEN [q |-> <<>>, r |-> n]
    ELSE BigDivStep(BigDivMod(n, BigDouble(d)), d)

\* the next ChunkBits quotient bits: dm divides the remainder so far
BigDivExtend(prev, dm) == [q |-> BigAdd(BigShl(prev.q, ChunkBits), dm.q), r |-> dm.r]
BigDivChunk(prev, d, shift) == BigDivExtend(prev, BigDivMod(prev.r, BigShl(d, shift)))

\* the quotient bits from bit `shift' upwards, and the remainder they leave
RECURSIVE BigDivFrom(_, _, _)
BigDivFrom(n, d, shift) ==
    BigDivChunk(IF shift + ChunkBits >= QuotientChunks * ChunkBits THEN [q |-> <<>>, r |-> n]
                ELSE BigDivFrom(n, d, shift + ChunkBits),
                d, shift)

\* quotient and remainder of n by d for quotients of up to QuotientChunks * ChunkBits bits
BigDivWide(n, d) == BigDivFrom(n, d, 0)

FZero == [m |-> <<>>, e |-> 0]

\* the quotient is rounded up when twice the remainder exceeds den, or equals it
\* and the quotient is odd
RoundsUp(twice, den, q) == BigLess(den, twice) \/ (twice = den /\ Hd(q) % 2 = 1)
RoundQuotient(dm, den, e) ==
    [m |-> IF RoundsUp(BigDouble(dm.r), den, dm.q) THEN BigAdd(dm.q, <<1>>) ELSE dm.q,
     e |-> e]
DivRound(num, den, e) == RoundQuotient(BigDivWide(num, den), den, e)

ScaledNum(n, k) == IF k >= 0 THEN BigShl(n, k) ELSE n
ScaledDen(d, k) == IF k >= 0 THEN d ELSE BigShl(d, 0 - k)

\* n / d * 2^e0 rounded to a multiple of 2^(e0 - k)
RoundAt(n, d, e0, k) == DivRound(ScaledNum(n, k), ScaledDen(d, k), e0 - k)

\* the quotient scaled by 2^k has at most MantissaBits bits
Fits(n, d, k) == BigLess(ScaledNum(n, k), BigShl(ScaledDen(d, k), MantissaBits))
RoundFrom(n, d, e0, k) == RoundAt(n, d, e0, IF Fits(n, d, k) THEN k ELSE k - 1)

\* n / d * 2^e0 rounded to MantissaBits significant bits
Round(n, d, e0) == RoundFrom(n, d, e0, MantissaBits - (BigBitLen(n) - BigBitLen(d)))

FOfInt(n) == [m |-> BigOf(n), e |-> 0]
\* x / y, y # 0
FDiv(x, y) == IF x.m = <<>> THEN FZero ELSE Round(x.m, y.m, x.e - y.e)
\* x * y
FMul(x, y) ==
    IF x.m = <<>> \/ y.m = <<>> THEN FZero
    ELSE Round(BigMul(x.m, y.m), <<1>>, x.e + y.e)
\* Math.ceil(x), x >= 0, as an integer
CeilOf(dm) == BigToInt(dm.q) + (IF dm.r = <<>> THEN 0 ELSE 1)
FCeil(x) ==
    IF x.m = <<>> THEN 0
    ELSE IF x.e >= 0 THEN BigToInt(BigShl(x.m, x.e))
    ELSE CeilOf(BigDivMod(x.m, BigShl(<<1>>, 0 - x.e)))

\* the literal 1.1 of CONFIG.WASTE_FACTOR: the Number nearest to 11 / 10
WASTE_FACTOR == FDiv(FOfInt(WasteNum), FOfInt(WasteDen))
\* (a) / 1_000_000
squareMetres(squareMm) == FDiv(FOfInt(squareMm), FOfInt(SquareMmPerSquareM))

\* s.split(':')[0]
RECURSIVE Split0(_)
Split0(s) ==
    IF s = <<>> \/ Head(s) = ":" THEN <<>> ELSE <<Head(s)>> \o Split0(Tail(s))

\* s.trim()
RECURSIVE TrimLeft(_)
TrimLeft(s) == IF s # <<>> /\ Head(s) = " " THEN TrimLeft(Tail(s)) ELSE s
RECURSIVE TrimRight(_)
TrimRight(s) ==
    IF s # <<>> /\ s[Len(s)] = " " THEN TrimRight(SubSeq(s, 1, Len(s) - 1)) ELSE s
Trim(s) == TrimRight(TrimLeft(s))

Min(a, b) == IF a < b THEN a ELSE b

----------------------------------------------------------------------------
(* The material catalog (the Firestore collection 'materials').  One fixed *)
(* catalog that holds every kind of record the handlers tell apart.        *)

Cat(tab, sub) == <<tab, ":", sub>>
NoDims == [present |-> FALSE, length |-> 0, width |-> 0, height |-> 0]
Dims(l, w) == [present |-> TRUE, length |-> l, width |-> w, height |-> 0]

GeometryTabs ==
    {"Glavnaya stena", "Fasadnaya stena", "BL stena", "BP stena", "Potolok", "Poly"}
OwnTabs == GeometryTabs \cup {"Na zaezd", "Osteklenie", "Elektrika", "Mebel", "Dop. parametr"}

\* validVariants, lines 1822-1828
validVariants ==
    {"Balkon 3m.", "Balkon 6m.", "Lodzhiya 3m.", "Lodzhiya 6m.", "Okno 1.5m. kirpich"}

Mat(name, price, unit, dims, hidden, qty, cats) ==
    [name |-> <<name>>, price |-> price, unit |-> unit, dimensions |-> dims,
     isHidden |-> hidden, quantity |-> qty, categories |-> cats]

\* the documents of the collection, in the order the store lists them
CatalogOrder ==
    <<"f1", "f2", "f3", "f4", "f5", "f6", "r1", "r2", "r3", "r4", "r5", "p1", "p2", "p3",
      "e1", "e2", "e3", "w1", "w2", "w3", "h1", "h2", "h3">>

Catalog ==
    [id \in {CatalogOrder[i] : i \in 1..Len(CatalogOrder)} |->
       CASE id = "f1" -> Mat("Panel", 100, <<"sht.">>, Dims(600, 300), FALSE, 0,
                             {Cat("Glavnaya stena", "Otdelka")})
         [] id = "f2" -> Mat("Plita", 50, <<"sht.">>, Dims(1000, 1000), TRUE, 0,
                             {Cat("Glavnaya stena", "Otdelka")})
         [] id = "f3" -> Mat("Bez tseny", 0, <<"sht.">>, Dims(600, 300), FALSE, 0,
                             {Cat("Glavnaya stena", "Otdelka")})
         [] id = "f4" -> Mat("Bez edinitsy", 70, <<>>, Dims(600, 300), FALSE, 0,
                             {Cat("Glavnaya stena", "Otdelka")})
         [] id = "f5" -> Mat("Vata", 40, <<"m.">>, NoDims, FALSE, 0,
                             {Cat("Glavnaya stena", "Uteplenie")})
         [] id = "f6" -> Mat("Mozaika", 3, <<"sht.">>, Dims(100, 55), FALSE, 0,
                             {Cat("Glavnaya stena", "Otdelka")})
         [] id = "r1" -> Mat("Reyka", 10, <<"sht.">>, Dims(3000, 50), TRUE, 0,
                             {Cat("Glavnaya stena", "Skrytye"), Cat("Poly", "Skrytye")})
         [] id = "r2" -> Mat("Reyka bez tseny", 0, <<"sht.">>, Dims(3000, 50), TRUE, 0,
                             {Cat("Glavnaya stena", "Skrytye")})
         [] id = "r3" -> Mat("Samorez", 2, <<>>, NoDims, FALSE, 0,
                             {Cat("Glavnaya stena", "Skrytye"), Cat("Potolok", "Skrytye")})
         [] id = "r4" -> Mat("Brus", 2, <<"sht.">>, Dims(2000, 50), FALSE, 0,
                             {Cat("BP stena", "Skrytye")})
         [] id = "r5" -> Mat("Profil", 2, <<"sht.">>, Dims(2000, 0), FALSE, 0,
                             {Cat("BP stena", "Skrytye")})
         [] id = "p1" -> Mat("Kraska", 30, <<"l.">>, NoDims, FALSE, 0,
                             {Cat("Glavnaya stena", "Pokraska sten"),
                              Cat("Potolok", "Pokraska potolka"),
                              Cat("Mebel", "Pokraska mebeli")})
         [] id = "p2" -> Mat("Kraska bez tseny", 0, <<"l.">>, NoDims, FALSE, 0,
                             {Cat("Glavnaya stena", "Pokraska sten"),
                              Cat("Mebel", "Pokraska mebeli")})
         [] id = "p3" -> Mat("Grunt", 20, <<>>, NoDims, TRUE, 0,
                             {Cat("Glavnaya stena", "Pokraska sten"),
                              Cat("Mebel", "Pokraska mebeli")})
         [] id = "e1" -> Mat("Meshki", 5, <<"sht.">>, NoDims, FALSE, 2000,
                             {Cat("Na zaezd", "Spisok na zaezd"), Cat("Mebel", "Stoleshnitsa")})
         [] id = "e2" -> Mat("Dyubel", 3, <<>>, NoDims, TRUE, 0,
                             {Cat("Na zaezd", "Spisok na zaezd"), Cat("Na zaezd", "Krepezh"),
                              Cat("Mebel", "Stoleshnitsa")})
         [] id = "e3" -> Mat("Kley", 0, <<"sht.">>, NoDims, FALSE, 1000,
                             {Cat("Na zaezd", "Krepezh"), Cat("Mebel", "Bok u pechki")})
         [] id = "w1" -> Mat("Balkon 3m.", 1000, <<"sht.">>, NoDims, FALSE, 0,
                             {Cat("Osteklenie", "Okno")})
         [] id = "w2" -> Mat("Lodzhiya 3m.", 1500, <<"sht.">>, NoDims, TRUE, 0,
                             {Cat("Osteklenie", "Okno")})
         [] id = "w3" -> Mat("Okno 1.5m. kirpich", 0, <<"sht.">>, NoDims, FALSE, 0,
                             {Cat("Osteklenie", "Okno")})
         [] id = "h1" -> Mat("Pena", 6, <<"sht.">>, NoDims, TRUE, 0,
                             {Cat("Osteklenie", "Okno") \o <<":", "Balkon 3m.", ":", "Skrytye">>,
                              Cat("Osteklenie", "Okno") \o <<":", "Lodzhiya 3m.", ":", "Skrytye">>,
                              Cat("Osteklenie", "Okno")
                                  \o <<":", "Okno 1.5m. kirpich", ":", "Skrytye">>})
         [] id = "h2" -> Mat("Ankery", 0, <<"sht.">>, NoDims, TRUE, 0,
                             {Cat("Osteklenie", "Okno") \o <<":", "Balkon 3m.", ":", "Skrytye">>})
         [] OTHER     -> Mat("Germetik", 4, <<>>, NoDims, FALSE, 0,
                             {Cat("Osteklenie", "Okno") \o <<":", "Balkon 3m.", ":", "Skrytye">>})]

MaterialIds == DOMAIN Catalog

\* the composite key "{materialId}:{categoryTag}:{materialName}" the UI sends
Key(id) == Str(<<id, ":", "kategoriya", ":", "imya">>)

\* the ids of the documents that carry the tag, in store order:
\* query.where('categories', 'array-contains', category)
ListByCategory(category) ==
    SelectSeq(CatalogOrder, LAMBDA id : category \in Catalog[id].categories)

\* one page of getMaterials: query.offset(page * itemsPerPage).limit(itemsPerPage)
PageOf(category, page, itemsPerPage) ==
    LET all == ListByCategory(category)
    IN  SubSeq(all, page * itemsPerPage + 1, Min(Len(all), (page + 1) * itemsPerPage))

\* hasMoreAfter with "the page is not empty" for "the page is full"
hasMoreWhileNotEmpty(materials, itemsPerPage) == Len(materials) > 0

\* line 73: hasMore = materials.length === itemsPerPage
hasMoreAfter(materials, itemsPerPage) == Len(materials) = itemsPerPage

(* fetchAllMaterials, lines 44-80.  failPage is the page whose getMaterials  *)
(* call reports failure (-1: none).  The result is [ok, materials, calls]:   *)
(* the concatenated pages and the page requests made; ok = FALSE is the      *)
(* throw of line 68.                                                         *)
RECURSIVE FetchLoop(_, _, _, _, _, _)
FetchLoop(category, itemsPerPage, page, allMaterials, made, failPage) ==
    LET request == [op |-> "getMaterials", key |-> category, page |-> page]
    IN  IF page = failPage
        THEN [ok |-> FALSE, materials |-> <<>>, calls |-> Append(made, request)]
        ELSE LET materials == PageOf(category, page, itemsPerPage)
                 hasMore == hasMoreAfter(materials, itemsPerPage)
             IN  IF hasMore
                 THEN FetchLoop(category, itemsPerPage, page + 1,
                                allMaterials \o materials, Append(made, request), failPage)
                 ELSE [ok |-> TRUE, materials |-> allMaterials \o materials,
                       calls |-> Append(made, request)]

fetchAllMaterials(category, itemsPerPage, failPage) ==
    FetchLoop(category, itemsPerPage, 0, <<>>, <<>>, failPage)

\* no run of fetchAllMaterials is being stepped through
NoFetch ==
    [category |-> <<>>, itemsPerPage |-> 0, failPage |-> 0 - 1, page |-> 0,
     allMaterials |-> <<>>, hasMore |-> FALSE, made |-> <<>>, status |-> "none"]

(* getMaterial, materialsManager.js lines 309-369, as its caller sees it:  *)
(* success with the document, or failure when the key is empty, the        *)
(* document does not exist or the store read fails.                        *)
getMaterial(key, storeFails) ==
    IF key = <<>> \/ Len(key) # 1 \/ storeFails THEN [success |-> FALSE, id |-> ""]
    ELSE IF key[1] \in MaterialIds THEN [success |-> TRUE, id |-> key[1]]
    ELSE [success |-> FALSE, id |-> ""]

\* MissingPriceOrUnit with && for ||: only a material that lacks both is refused
MissingPriceAndUnit(material) == material.price = 0 /\ material.unit = <<>>

\* !material.price || !material.unit (lines 152, 301, 413, 1890, 1991, 2069)
MissingPriceOrUnit(material) == material.price = 0 \/ material.unit = <<>>

\* normalizeDimensions, lines 88-106
normalizeDimensions(dimensions) ==
    IF ~dimensions.present THEN [length |-> 0, width |-> 0, height |-> 0]
    ELSE IF dimensions.length = 0 \/ dimensions.width = 0
         THEN [length |-> 0, width |-> 0, height |-> 0]
         ELSE [length |-> dimensions.length, width |-> dimensions.width,
               height |-> dimensions.height]

----------------------------------------------------------------------------
(* Line items and the accumulators of one calculation.                     *)

(* A line item, as pushed at lines 347-353, 394-400, 163-169, ...  The     *)
(* fields id and src are history: the catalog document the line was        *)
(* computed from and the step that pushed it ("finish", "rail",            *)
(* "insulation", "paint", "category", "option", "windowHidden", "item",    *)
(* "extra" for the push inside processExtraMaterials, "extraMerge" for the *)
(* handler's push of the returned list).  The caller gets the line items   *)
(* without them: LineItems.                                                *)
LineItem(id, src, quantity, unit, cost, hidden) ==
    [material |-> Catalog[id].name, quantity |-> quantity, unit |-> unit,
     cost |-> ToFixed2(cost), hidden |-> hidden, id |-> id, src |-> src]

LineItems(rs) ==
    [i \in 1..Len(rs) |->
        [material |-> rs[i].material, quantity |-> rs[i].quantity, unit |-> rs[i].unit,
         cost |-> rs[i].cost, hidden |-> rs[i].hidden]]

\* unit || fallback
UnitOr(unit, fallback) == IF unit # <<>> THEN unit ELSE <<fallback>>

\* the accumulators a step reads and writes
Acc == [results |-> results, totalCost |-> totalCost, costed |-> costed, calls |-> calls]

\* PushAndAdd with unshift for push: the new line item goes to the front of results
PushFirstAndAdd(acc, item, cost) ==
    [acc EXCEPT !.results = <<item>> \o @,
                !.totalCost = @ + cost,
                !.costed = Append(@, [id |-> item.id, src |-> item.src, cost |-> cost])]

\* results.push(item); totalCost += cost
PushAndAdd(acc, item, cost) ==
    [acc EXCEPT !.results = Append(@, item),
                !.totalCost = @ + cost,
                !.costed = Append(@, [id |-> item.id, src |-> item.src, cost |-> cost])]

\* PushUnlessHiddenAndAdd without the isHidden test
PushAlwaysAndAdd(acc, item, cost) ==
    [acc EXCEPT !.results = Append(@, item),
                !.totalCost = @ + cost,
                !.costed = Append(@, [id |-> item.id, src |-> item.src, cost |-> cost])]

\* if (!material.isHidden) results.push(resultEntry); totalCost += cost
\* (lines 1761-1764, 1910-1913, 2008-2011, 2086-2089, 2164-2167)
PushUnlessHiddenAndAdd(acc, item, cost) ==
    [acc EXCEPT !.results = IF Catalog[item.id].isHidden THEN @ ELSE Append(@, item),
                !.totalCost = @ + cost,
                !.costed = Append(@, [id |-> item.id, src |-> item.src, cost |-> cost])]

Called(acc, op, key) ==
    [acc EXCEPT !.calls = Append(@, [op |-> op, key |-> key, page |-> 0])]

----------------------------------------------------------------------------
(* processExtraMaterials, lines 116-183.  st carries the local totalCost   *)
(* and extraResults, the caller's results array (mutated in place) and the *)
(* histories; failAt is the getMaterial call of this run (1, 2, ...) whose *)
(* store read fails, 0 for none.                                           *)

\* InvalidExtra without the three quantity tests
InvalidExtraKeyOnly(extra) ==
    \/ ~Truthy(extra.materialKey)
    \/ ~IsString(extra.materialKey)
    \/ Trim(extra.materialKey.s) = <<>>

\* the entry check of lines 127-134
InvalidExtra(extra) ==
    \/ ~Truthy(extra.materialKey)
    \/ ~IsString(extra.materialKey)
    \/ Trim(extra.materialKey.s) = <<>>
    \/ ~IsNumber(extra.quantity)
    \/ extra.quantity.t = "NaN"
    \/ extra.quantity.n <= 0

\* lines 162-174
CostExtra(st, id, quantity) ==
    LET material == Catalog[id]
        extraCost == quantity * material.price
        resultEntry == LineItem(id, "extra", ToFixed2(quantity), material.unit,
                                extraCost, material.isHidden)
    IN  [st EXCEPT !.extraResults = Append(@, resultEntry),
                   !.results = IF material.isHidden THEN @ ELSE Append(@, resultEntry),
                   !.totalCost = @ + extraCost,
                   !.costed = Append(@, [id |-> id, src |-> "extra", cost |-> extraCost])]

RECURSIVE ExtraLoop(_, _, _, _)
ExtraLoop(extraMaterials, i, st, failAt) ==
    IF i > Len(extraMaterials) THEN st
    ELSE LET extra == extraMaterials[i]
         IN  IF InvalidExtra(extra) THEN ExtraLoop(extraMaterials, i + 1, st, failAt)
             ELSE LET materialId == Split0(extra.materialKey.s)
                      nth == st.n + 1
                      materialResult == getMaterial(materialId, nth = failAt)
                      st1 == [st EXCEPT !.n = nth,
                                        !.calls = Append(@, [op |-> "getMaterial",
                                                             key |-> materialId, page |-> 0])]
                  IN  IF ~materialResult.success
                      THEN ExtraLoop(extraMaterials, i + 1, st1, failAt)
                      ELSE LET material == Catalog[materialResult.id]
                           IN  IF MissingPriceOrUnit(material)
                               THEN ExtraLoop(extraMaterials, i + 1, st1, failAt)
                               ELSE ExtraLoop(extraMaterials, i + 1,
                                              CostExtra(st1, materialResult.id,
                                                        extra.quantity.n), failAt)

processExtraMaterials(extraMaterials, acc, failAt) ==
    LET st0 == [totalCost |-> 0, extraResults |-> <<>>, results |-> acc.results,
                costed |-> acc.costed, calls |-> acc.calls, n |-> 0]
    IN  IF extraMaterials.t # "array" THEN st0
        ELSE ExtraLoop(extraMaterials.a, 1, st0, failAt)

\* r => r.hidden over the returned list, re-tagged as the handler's own push
HiddenOf(rs) ==
    LET hidden == SelectSeq(rs, LAMBDA r : r.hidden)
    IN  [i \in 1..Len(hidden) |-> [hidden[i] EXCEPT !.src = "extraMerge"]]

\* MergeExtras without the filter: every returned entry is pushed again
MergeExtrasUnfiltered(acc, extraResult) ==
    [results |-> extraResult.results
                 \o [i \in 1..Len(extraResult.extraResults) |->
                       [extraResult.extraResults[i] EXCEPT !.src = "extraMerge"]],
     totalCost |-> acc.totalCost + extraResult.totalCost,
     costed |-> extraResult.costed,
     calls |-> extraResult.calls]

(* The merge every handler ends with (lines 482-491, 2205-2207):           *)
(*   totalCost += extraResult.totalCost;                                   *)
(*   results.push(...extraResult.results.filter(r => r.hidden));           *)
MergeExtras(acc, extraResult) ==
    [results |-> extraResult.results \o HiddenOf(extraResult.extraResults),
     totalCost |-> acc.totalCost + extraResult.totalCost,
     costed |-> extraResult.costed,
     calls |-> extraResult.calls]

----------------------------------------------------------------------------
(* Requests.                                                               *)

DataFields ==
    {"length", "width", "finishType", "insulationType", "wallPainting", "ceilingPainting",
     "extraMaterials", "entryListToggle", "entryFastenersToggle", "entryTilingToggle",
     "glazingType", "frameType", "exteriorFinish", "balconyBlock", "windowType",
     "windowSlopes", "sillType", "roofType", "windowQuantity",
     "cableType", "cableQuantity", "switchType", "switchQuantity",
     "socketType", "socketQuantity", "spotType", "spotQuantity",
     "furnitureMaterial", "furniturePainting", "shelfTopMaterial", "shelfTopQuantity",
     "shelfBottomMaterial", "shelfBottomQuantity", "stoveSide", "countertop"}

\* data = {}: every field undefined
EmptyData == [f \in DataFields |-> Undef]

Yes == Str(<<"yes">>)
No == Str(<<"no">>)

Request(tab, data) ==
    [hasBody |-> TRUE, authToken |-> <<"Bearer">>, tabName |-> Str(<<tab>>),
     hasData |-> TRUE, data |-> data]

\* entries of an extraMaterials array
Extra(key, quantity) == [materialKey |-> key, quantity |-> quantity]
ExtraEntries ==
    {Extra(Key("f1"), Num(2000)),      \* visible material, 2 units
     Extra(Key("f2"), Num(1125)),      \* catalog-hidden material, 1.125 units
     Extra(Key("f1"), Num(0)),         \* quantity 0
     Extra(Str(<<" ">>), Num(1000)),   \* blank key
     Extra(Key("zz"), Num(1000)),      \* no such material
     Extra(Key("f3"), NaN),            \* quantity NaN
     Extra(Undef, Num(1000)),          \* no materialKey
     Extra(Num(7), Num(1000)),         \* materialKey is a number
     Extra(Key("f1"), Str(<<"2">>)),   \* quantity is a string
     Extra(Key("f1"), Num(0 - 1000))}  \* negative quantity

RECURSIVE SeqsUpTo(_, _)
SeqsUpTo(S, n) ==
    IF n = 0 THEN {<<>>}
    ELSE LET shorter == SeqsUpTo(S, n - 1)
         IN  shorter \cup {Append(q, x) : q \in {r \in shorter : Len(r) = n - 1}, x \in S}

\* every extraMaterials value of a 'Dop. parametr' request
ExtraValues == {Undef, Str(<<"x">>)} \cup {Arr(q) : q \in SeqsUpTo(ExtraEntries, MaxExtras)}
\* the extraMaterials values sent with the other tabs
FewExtraValues ==
    {Undef,
     Arr(<<Extra(Key("f2"), Num(1125)), Extra(Key("f1"), Num(2000))>>),
     Arr(<<Extra(Key("zz"), Num(1000))>>)}

RoomLength == 300
RoomHeight == 250

GeometryRequests ==
    {Request(tab, [EmptyData EXCEPT !.length = Num(RoomLength), !.width = Num(RoomHeight),
                                    !.finishType = f, !.insulationType = ins,
                                    !.wallPainting = wp, !.ceilingPainting = cp,
                                    !.extraMaterials = x]) :
        tab \in GeometryTabs,
        f \in {Key("f1"), Key("f2"), Key("f3"), Key("f4"), Key("f5"), Key("f6"), Key("zz")},
        ins \in {Undef, Key("f5"), Key("f4"), Key("zz"), Key("f2"), Key("f6")},
        wp \in {Undef, Yes}, cp \in {No, Yes},
        x \in FewExtraValues}
    \cup
    {Request(tab, [EmptyData EXCEPT !.length = l, !.width = w, !.finishType = f,
                                    !.wallPainting = Yes, !.ceilingPainting = Yes,
                                    !.extraMaterials = Arr(<<Extra(Key("f1"), Num(2000))>>)]) :
        tab \in GeometryTabs,
        l \in {Num(RoomLength), Num(0), NaN, Str(<<"300">>)},
        w \in {Num(RoomHeight), Num(0 - 5), Undef},
        f \in {Key("f1"), Undef, Num(7), Str(<<>>)}}

\* requests the base checks of lines 192-236 are about, and unsupported tabs
BaseRequests ==
    {[Request("Poly", EmptyData) EXCEPT !.hasBody = FALSE],
     [Request("Poly", EmptyData) EXCEPT !.authToken = <<>>],
     [Request("Poly", EmptyData) EXCEPT !.hasData = FALSE],
     [Request("Poly", EmptyData) EXCEPT !.tabName = Undef],
     [Request("Poly", EmptyData) EXCEPT !.tabName = Num(3)]}
    \cup
    {Request(tab, [EmptyData EXCEPT !.length = Num(RoomLength), !.width = Num(RoomHeight),
                                    !.finishType = Key("f1"), !.extraMaterials = x]) :
        tab \in {"Podval", "toString", "constructor", "__proto__"},
        x \in FewExtraValues}

EntryRequests ==
    {Request("Na zaezd", [EmptyData EXCEPT !.entryListToggle = a,
                                           !.entryFastenersToggle = b,
                                           !.entryTilingToggle = c,
                                           !.extraMaterials = x]) :
        a \in {Yes, No, Undef, Num(1)}, b \in {Yes, No}, c \in {Yes, No, Num(1)},
        x \in FewExtraValues}

GlazingRequests ==
    {Request("Osteklenie", [EmptyData EXCEPT !.windowType = Str(<<w>>),
                                             !.windowQuantity = Num(2000),
                                             !.glazingType = g, !.frameType = fr,
                                             !.exteriorFinish = e, !.windowSlopes = sl,
                                             !.sillType = si, !.roofType = r,
                                             !.extraMaterials = x]) :
        w \in {"Balkon 3m.", "Lodzhiya 3m.", "Okno 1.5m. kirpich"},
        g \in {Undef, Key("f1")}, fr \in {No, Key("f2")}, e \in {Undef, Key("f4")},
        sl \in {Undef, Key("zz")}, si \in {Undef, Num(7)}, r \in {Undef, Key("f3")},
        x \in FewExtraValues}
    \cup
    {Request("Osteklenie", [EmptyData EXCEPT !.windowType = w, !.windowQuantity = q,
                                             !.glazingType = Key("f1"),
                                             !.extraMaterials =
                                                 Arr(<<Extra(Key("f1"), Num(2000))>>)]) :
        w \in {Undef, Str(<<"Balkon 3m.">>), Str(<<"Terrasa">>), Num(5)},
        q \in {Num(2000), Num(0), Undef, NaN}}

ElectricRequests ==
    {Request("Elektrika", [EmptyData EXCEPT !.cableType = ct, !.cableQuantity = cq,
                                            !.switchType = st, !.switchQuantity = sq,
                                            !.socketType = so, !.socketQuantity = Num(1000),
                                            !.spotType = sp, !.spotQuantity = pq,
                                            !.extraMaterials = x]) :
        ct \in {Undef, Key("f1"), Key("f2")}, cq \in {Num(3000), Num(0)},
        st \in {Key("f4"), Key("zz")}, sq \in {Num(1000), Undef},
        so \in {Undef, Num(7)},
        sp \in {Key("f2"), Key("f3")}, pq \in {Num(2500), NaN},
        x \in FewExtraValues}

FurnitureRequests ==
    {Request("Mebel", [EmptyData EXCEPT !.furnitureMaterial = fm, !.furniturePainting = fp,
                                        !.shelfTopMaterial = tm, !.shelfTopQuantity = tq,
                                        !.shelfBottomMaterial = bm,
                                        !.shelfBottomQuantity = Num(1000),
                                        !.stoveSide = ss, !.countertop = ctp,
                                        !.extraMaterials = x]) :
        fm \in {Undef, Key("f1"), Key("f2")}, fp \in {Undef, Yes},
        tm \in {Undef, Key("f1")}, tq \in {Num(2000), Num(0)},
        bm \in {Key("f4"), Key("zz")},
        ss \in {Yes, No}, ctp \in {Yes, Undef},
        x \in FewExtraValues}

ExtraOnlyRequests ==
    {Request("Dop. parametr", [EmptyData EXCEPT !.extraMaterials = x]) : x \in ExtraValues}

AllRequests ==
    BaseRequests \cup GeometryRequests \cup EntryRequests \cup GlazingRequests
    \cup ElectricRequests \cup FurnitureRequests \cup ExtraOnlyRequests

----------------------------------------------------------------------------
(* Results of a handler and of calculateMaterials.                         *)

NoReturn == [kind |-> "none", success |-> FALSE, error |-> ""]
\* an async handler that ends without a return statement resolves to undefined
ReturnsUndefined == [kind |-> "undefined", success |-> FALSE, error |-> ""]
\* return { success: false, error }
Rejection(error) == [kind |-> "object", success |-> FALSE, error |-> error]
\* a value that is no result object: the string or the object an inherited
\* method of tabHandlers returns
OtherValue(what) == [kind |-> "other", success |-> FALSE, error |-> what]

Pending ==
    [kind |-> "pending", success |-> FALSE, error |-> "", results |-> <<>>, totalCost |-> Undef]
\* Failure that also carries what the handler had accumulated
FailureWithPartialBill(error) ==
    [kind |-> "object", success |-> FALSE, error |-> error, results |-> LineItems(results),
     totalCost |-> ToFixed2(totalCost)]

\* calculateMaterials resolved to a result object without results
Failure(error) ==
    [kind |-> "object", success |-> FALSE, error |-> error, results |-> <<>>,
     totalCost |-> Undef]
\* lines 2248-2252
Success(rs, total) ==
    [kind |-> "object", success |-> TRUE, error |-> "", results |-> LineItems(rs),
     totalCost |-> ToFixed2(total)]
\* calculateMaterials rejected: the promise carries an exception
Thrown(error) ==
    [kind |-> "thrown", success |-> FALSE, error |-> error, results |-> <<>>,
     totalCost |-> Undef]
\* calculateMaterials resolved to a value that is no result object
NotAResult(what) ==
    [kind |-> "other", success |-> FALSE, error |-> what, results |-> <<>>,
     totalCost |-> Undef]

\* the outcomes of one analytics write, db.collection('analytics').add(...)
LogOutcomes == IF analytics = "up" THEN {TRUE} ELSE BOOLEAN
\* whether the next catalog store read fails
FaultChoices == IF faults > 0 THEN BOOLEAN ELSE {FALSE}
\* the page of a fetch-all whose getMaterials call fails (-1: none)
FailPages(category) ==
    IF faults > 0 THEN (0 - 1)..(Len(ListByCategory(category)) \div ITEMS_PER_PAGE)
    ELSE {0 - 1}

tabName == req.tabName.s[1]
data == req.data

\* one step of calculateMaterials inside the try block
Go(p, acc, r, e, f, i) ==
    /\ pc' = p
    /\ results' = acc.results
    /\ totalCost' = acc.totalCost
    /\ costed' = acc.costed
    /\ calls' = acc.calls
    /\ ret' = r
    /\ err' = e
    /\ faults' = f
    /\ idx' = i
    /\ UNCHANGED <<outside, fetch, req, analytics, response>>

\* await logErrorToFirestore(...); return { success: false, error } in a handler:
\* a failing analytics write throws instead
HandlerRejects(acc, error, f) ==
    \E ok \in LogOutcomes :
        IF ok THEN Go("returned", acc, Rejection(error), err, f, idx)
        ELSE Go("catch", acc, ret, "analytics write failed", f, idx)

\* the handler ends without a return statement
HandlerEnds(acc, f) == Go("returned", acc, ReturnsUndefined, err, f, idx)

\* fetchAllMaterials failed: lines 52-69 log and throw
FetchThrows(acc, f) ==
    \E ok \in LogOutcomes :
        Go("catch", acc, ret, IF ok THEN "getMaterials failed" ELSE "analytics write failed",
           f, idx)

----------------------------------------------------------------------------
(* calculateMaterials, lines 190-242: the code before the handlers.        *)

(* The locals of one call of calculateMaterials: results and totalCost are  *)
(* declared inside the function (lines 238-239), the handlers are closures *)
(* over them (line 242), and the module keeps nothing else between calls.  *)

\* InvocationLocals with results and totalCost declared at module level: a call
\* starts with what the call before it left
InvocationGlobals == [results |-> results, totalCost |-> totalCost]

\* let results = []; let totalCost = 0; (lines 238-239)
InvocationLocals == [results |-> <<>>, totalCost |-> 0]

\* a call that has not started
NewCall(request, locals) ==
    [req |-> request, pc |-> "start", idx |-> 1, results |-> locals.results,
     totalCost |-> locals.totalCost, extraResults |-> <<>>, costed |-> <<>>,
     calls |-> <<>>, ret |-> NoReturn, err |-> "", response |-> Pending]

\* the call the variables describe
ThisCall ==
    [req |-> req, pc |-> pc, idx |-> idx, results |-> results, totalCost |-> totalCost,
     extraResults |-> extraResults, costed |-> costed, calls |-> calls, ret |-> ret,
     err |-> err, response |-> response]

\* no second call
NoCall ==
    [who |-> 0,
     call |-> NewCall(Request("Poly", EmptyData), [results |-> <<>>, totalCost |-> 0])]

\* materialsManager.js is not running
NoManager == [status |-> "none"]

\* one call of calculateMaterials about to start; budget store reads may fail
InitCall(requests, store, budget) ==
    /\ earlier = <<>>
    /\ parked = NoCall
    /\ manager = NoManager
    /\ fetch = NoFetch
    /\ req \in requests
    /\ analytics = store
    /\ faults = budget
    /\ pc = "start"
    /\ idx = 1
    /\ results = <<>>
    /\ totalCost = 0
    /\ extraResults = <<>>
    /\ costed = <<>>
    /\ calls = <<>>
    /\ ret = NoReturn
    /\ err = ""
    /\ response = Pending

InitWith(requests, store) == InitCall(requests, store, MaxFaults)

\* lines 191-200, before the try: req.body.userId and the destructuring of
\* req.body throw a TypeError when the request has no body
Receive ==
    /\ pc = "start"
    /\ IF req.hasBody
       THEN pc' = "validate" /\ UNCHANGED response
       ELSE pc' = "done" /\ response' = Thrown("TypeError: req.body is undefined")
    /\ UNCHANGED <<outside, fetch, req, analytics, faults, idx, results, totalCost, extraResults,
                   costed, calls, ret, err>>

\* return from inside the try block after an analytics write
ReturnLogged(value) ==
    \E ok \in LogOutcomes :
        /\ IF ok THEN pc' = "done" /\ response' = value /\ err' = err
           ELSE pc' = "catch" /\ response' = response /\ err' = "analytics write failed"
        /\ UNCHANGED <<outside, fetch, req, analytics, faults, idx, results, totalCost,
                       extraResults, costed, calls, ret>>

\* lines 203-236
ValidateBase ==
    /\ pc = "validate"
    /\ IF req.authToken = <<>>
       THEN ReturnLogged(Failure("authToken is required and must be a string"))
       ELSE IF ~Truthy(req.tabName) \/ ~req.hasData \/ ~IsString(req.tabName)
            THEN ReturnLogged(Failure("tabName and data are required"))
            ELSE /\ pc' = "dispatch"
                 /\ UNCHANGED <<outside, fetch, req, analytics, faults, idx, results, totalCost,
                                extraResults, costed, calls, ret, err, response>>

(* tabHandlers[tabName], line 2211.  tabHandlers is an object literal, so   *)
(* the property read also finds what Object.prototype holds.                *)
InheritedFunctions == {"toString", "constructor"}
InheritedObjects == {"__proto__"}
HandlerLookup(name) ==
    CASE name \in OwnTabs -> "handler"
      [] name \in InheritedFunctions -> "inherited function"
      [] name \in InheritedObjects -> "inherited object"
      [] OTHER -> "undefined"

FirstStep(name) ==
    CASE name \in GeometryTabs -> "geoValidate"
      [] name = "Na zaezd" -> "entryValidate"
      [] name = "Osteklenie" -> "glazingValidate"
      [] name = "Elektrika" -> "electric"
      [] name = "Mebel" -> "furnitureItems"
      [] OTHER -> "extraOnly"

\* lines 2211-2226: if (tabHandlers[tabName]) { await tabHandlers[tabName]() } else ...
Dispatch ==
    /\ pc = "dispatch"
    /\ LET found == HandlerLookup(tabName)
       IN  CASE found = "handler" ->
                  Go(FirstStep(tabName), Acc, ret, err, faults, 1)
             [] found = "inherited function" ->
                  \* the call returns a string or an empty object
                  Go("returned", Acc, OtherValue(tabName), err, faults, idx)
             [] found = "inherited object" ->
                  \* truthy, and not callable
                  Go("catch", Acc, ret, "TypeError: tabHandlers[tabName] is not a function",
                     faults, idx)
             [] OTHER ->
                  /\ ReturnLogged(Failure("unsupported tab"))
    /\ UNCHANGED extraResults

----------------------------------------------------------------------------
(* The handler of the six geometry tabs (lines 243-492 and its five        *)
(* copies, lines 493-1704; 'Potolok' reads ceilingPainting, 'Poly' has no   *)
(* painting step).                                                         *)

\* InvalidGeometry without the finishType tests: a missing or non-string finishType passes
InvalidGeometrySizesOnly(d) ==
    \/ NotPositiveNumber(d.length)
    \/ NotPositiveNumber(d.width)

\* the check of lines 253-262
InvalidGeometry(d) ==
    \/ NotPositiveNumber(d.length)
    \/ NotPositiveNumber(d.width)
    \/ ~Truthy(d.finishType)
    \/ ~IsString(d.finishType)

GeoValidate ==
    /\ pc = "geoValidate"
    /\ IF InvalidGeometry(data)
       THEN HandlerRejects(Acc, "invalid dimensions or finishType", faults)
       ELSE Go("geoFinish", Acc, ret, err, faults, idx)
    /\ UNCHANGED extraResults

\* lines 342-344: Math.ceil((area / materialArea) * CONFIG.WASTE_FACTOR)
visibleQuantity(length, height, matLength, matWidth) ==
    LET area == squareMetres(length * height)
        materialArea == squareMetres(matLength * matWidth)
    IN  FCeil(FMul(FDiv(area, materialArea), WASTE_FACTOR))

(* The Number computations of the handlers depend only on the room and on   *)
(* the dimensions of a catalog material: they are computed once, for the    *)
(* room of the requests and the dimensions the catalog holds.               *)
RoomSizes == {<<RoomLength, RoomHeight>>}
MaterialDimensions == {normalizeDimensions(Catalog[id].dimensions) : id \in MaterialIds}
Computed(table, key) == (CHOOSE entry \in table : entry[1] = key)[2]

visibleQuantities ==
    {<<<<room[1], room[2], d.length, d.width>>,
       visibleQuantity(room[1], room[2], d.length, d.width)>> :
        room \in RoomSizes, d \in {m \in MaterialDimensions : m.length > 0 /\ m.width > 0}}

\* lines 342-354
CostFinish(acc, id, length, height) ==
    LET visibleMaterial == Catalog[id]
        dimensions == normalizeDimensions(visibleMaterial.dimensions)
        quantity == Computed(visibleQuantities,
                             <<length, height, dimensions.length, dimensions.width>>)
        visibleCost == quantity * 1000 * visibleMaterial.price
    IN  PushAndAdd(acc, LineItem(id, "finish", Num(quantity * 1000), visibleMaterial.unit,
                                 visibleCost, FALSE), visibleCost)

\* lines 281-354
GeoFinish ==
    /\ pc = "geoFinish"
    /\ \E storeFails \in FaultChoices :
         LET materialId == Split0(data.finishType.s)
             visibleMaterialResult == getMaterial(materialId, storeFails)
             acc == Called(Acc, "getMaterial", materialId)
             f == IF storeFails THEN faults - 1 ELSE faults
         IN  IF ~visibleMaterialResult.success
             THEN HandlerRejects(acc, "material not found", f)
             ELSE LET visibleMaterial == Catalog[visibleMaterialResult.id]
                      dimensions == normalizeDimensions(visibleMaterial.dimensions)
                  IN  IF MissingPriceOrUnit(visibleMaterial)
                      THEN HandlerRejects(acc, "material missing price or unit", f)
                      ELSE IF dimensions.length <= 0 \/ dimensions.width <= 0
                           THEN HandlerRejects(acc, "invalid material dimensions", f)
                           ELSE Go("geoHidden",
                                   CostFinish(acc, visibleMaterialResult.id,
                                              data.length.n, data.width.n),
                                   ret, err, f, idx)
    /\ UNCHANGED extraResults

\* line 389: Math.ceil(length / CONFIG.RAIL_STEP), length as the request gives it
horizontalCount(length) == length * RailStepInv
\* lines 379 and 390: Math.ceil(height / railLength), railLength in metres
verticalCount(height, hiddenLength) ==
    LET railLengthMm == IF hiddenLength # 0 THEN hiddenLength ELSE RAIL_DEFAULT_LENGTH
        railLength == FDiv(FOfInt(railLengthMm), FOfInt(1000))
    IN  FCeil(FDiv(FOfInt(height), railLength))
verticalCounts ==
    {<<<<room[2], d.length>>, verticalCount(room[2], d.length)>> :
        room \in RoomSizes, d \in MaterialDimensions}
\* line 391, in thousandths
railQuantity(length, height, hiddenLength) ==
    horizontalCount(length) * Computed(verticalCounts, <<height, hiddenLength>>)
    * RailWasteMilli

\* CostRail with the isHidden filter of the option slots: a catalog-hidden rail is
\* costed and not listed
CostRailUnlessHidden(acc, id, length, height) ==
    LET hiddenMaterial == Catalog[id]
        hiddenDimensions == normalizeDimensions(hiddenMaterial.dimensions)
        quantity == railQuantity(length, height, hiddenDimensions.length)
        railCost == quantity * hiddenMaterial.price
    IN  PushUnlessHiddenAndAdd(acc,
                   LineItem(id, "rail", ToFixed2(quantity),
                            UnitOr(hiddenMaterial.unit, "sht."), railCost, TRUE),
                   railCost)

\* lines 375-401: one hidden material with a price
CostRail(acc, id, length, height) ==
    LET hiddenMaterial == Catalog[id]
        hiddenDimensions == normalizeDimensions(hiddenMaterial.dimensions)
        quantity == railQuantity(length, height, hiddenDimensions.length)
        railCost == quantity * hiddenMaterial.price
    IN  PushAndAdd(acc,
                   LineItem(id, "rail", ToFixed2(quantity),
                            UnitOr(hiddenMaterial.unit, "sht."), railCost, TRUE),
                   railCost)

\* CostRails with break for continue: the loop ends at the first material without a price
RECURSIVE CostRailsUntilUnpriced(_, _, _, _, _)
CostRailsUntilUnpriced(acc, hiddenMaterials, i, length, height) ==
    IF i > Len(hiddenMaterials) THEN acc
    ELSE IF Catalog[hiddenMaterials[i]].price = 0 THEN acc
         ELSE CostRailsUntilUnpriced(CostRail(acc, hiddenMaterials[i], length, height),
                                     hiddenMaterials, i + 1, length, height)

\* lines 365-402: the loop over the hidden materials
RECURSIVE CostRails(_, _, _, _, _)
CostRails(acc, hiddenMaterials, i, length, height) ==
    IF i > Len(hiddenMaterials) THEN acc
    ELSE IF Catalog[hiddenMaterials[i]].price = 0
         THEN CostRails(acc, hiddenMaterials, i + 1, length, height)
         ELSE CostRails(CostRail(acc, hiddenMaterials[i], length, height),
                        hiddenMaterials, i + 1, length, height)

\* lines 356-402
GeoHidden ==
    /\ pc = "geoHidden"
    /\ LET category == <<tabName, ":", "Skrytye">>
       IN  \E failPage \in FailPages(category) :
             LET fetched == fetchAllMaterials(category, ITEMS_PER_PAGE, failPage)
                 acc == [Acc EXCEPT !.calls = @ \o fetched.calls]
             IN  IF ~fetched.ok THEN FetchThrows(acc, faults - 1)
                 ELSE Go("geoInsulation",
                         CostRails(acc, fetched.materials, 1, data.length.n, data.width.n),
                         ret, err, faults, idx)
    /\ UNCHANGED extraResults

\* x || 1
OrOne(x) == IF x # FZero THEN x ELSE FOfInt(1)

\* lines 424-429
insulationQuantity(length, height, insulationDimensions) ==
    LET insulationArea == squareMetres(length * height)
        insulationMatArea ==
            OrOne(squareMetres(insulationDimensions.length * insulationDimensions.width))
    IN  FCeil(FMul(FDiv(insulationArea, insulationMatArea), WASTE_FACTOR))

insulationQuantities ==
    {<<<<room[1], room[2], d>>, insulationQuantity(room[1], room[2], d)>> :
        room \in RoomSizes, d \in MaterialDimensions}

\* lines 420-439
CostInsulation(acc, id, length, height) ==
    LET insulationMaterial == Catalog[id]
        insulationDimensions == normalizeDimensions(insulationMaterial.dimensions)
        quantity == Computed(insulationQuantities, <<length, height, insulationDimensions>>)
        insulationCost == quantity * 1000 * insulationMaterial.price
    IN  PushAndAdd(acc, LineItem(id, "insulation", Num(quantity * 1000),
                                 insulationMaterial.unit, insulationCost, FALSE),
                   insulationCost)

\* the step after the insulation step: 'Poly' has no painting step
AfterInsulation == IF tabName = "Poly" THEN "extras" ELSE "geoPaint"

\* lines 404-449
GeoInsulation ==
    /\ pc = "geoInsulation"
    /\ IF Truthy(data.insulationType) /\ IsString(data.insulationType)
       THEN \E storeFails \in FaultChoices :
              LET insulationMaterialId == Split0(data.insulationType.s)
                  insulationMaterialResult == getMaterial(insulationMaterialId, storeFails)
                  acc == Called(Acc, "getMaterial", insulationMaterialId)
                  f == IF storeFails THEN faults - 1 ELSE faults
              IN  IF insulationMaterialResult.success
                  THEN LET insulationMaterial == Catalog[insulationMaterialResult.id]
                       IN  IF MissingPriceOrUnit(insulationMaterial)
                           THEN Go(AfterInsulation, acc, ret, err, f, idx)
                           ELSE Go(AfterInsulation,
                                   CostInsulation(acc, insulationMaterialResult.id,
                                                  data.length.n, data.width.n),
                                   ret, err, f, idx)
                  ELSE Go(AfterInsulation, acc, ret, err, f, idx)
       ELSE Go(AfterInsulation, Acc, ret, err, faults, idx)
    /\ UNCHANGED extraResults

\* one unit of paint per square metre: the coverage is not applied
paintQuantityPerSquareMetre(length, height) == FCeil(squareMetres(length * height))

\* lines 467-468: Math.ceil(paintArea / CONFIG.PAINT_COVERAGE)
paintQuantity(length, height) ==
    FCeil(FDiv(squareMetres(length * height), FOfInt(PAINT_COVERAGE)))

paintQuantities ==
    {<<<<room[1], room[2]>>, paintQuantity(room[1], room[2])>> : room \in RoomSizes}

\* lines 458-479: the loop over the paint materials
RECURSIVE CostPaints(_, _, _, _, _)
CostPaints(acc, paintMaterials, i, length, height) ==
    IF i > Len(paintMaterials) THEN acc
    ELSE LET id == paintMaterials[i]
             paintMaterial == Catalog[id]
             quantity == Computed(paintQuantities, <<length, height>>)
             paintCost == quantity * 1000 * paintMaterial.price
         IN  IF paintMaterial.price = 0
             THEN CostPaints(acc, paintMaterials, i + 1, length, height)
             ELSE CostPaints(PushAndAdd(acc,
                                 LineItem(id, "paint", Num(quantity * 1000),
                                          UnitOr(paintMaterial.unit, "l."), paintCost, FALSE),
                                 paintCost),
                             paintMaterials, i + 1, length, height)

\* the painting flag and the paint category of a wall or ceiling tab
PaintFlag == IF tabName = "Potolok" THEN data.ceilingPainting ELSE data.wallPainting
PaintCategory ==
    IF tabName = "Potolok" THEN <<tabName, ":", "Pokraska potolka">>
    ELSE <<tabName, ":", "Pokraska sten">>

\* lines 451-480
GeoPaint ==
    /\ pc = "geoPaint"
    /\ IF PaintFlag = Yes
       THEN \E failPage \in FailPages(PaintCategory) :
              LET fetched == fetchAllMaterials(PaintCategory, ITEMS_PER_PAGE, failPage)
                  acc == [Acc EXCEPT !.calls = @ \o fetched.calls]
              IN  IF ~fetched.ok THEN FetchThrows(acc, faults - 1)
                  ELSE Go("extras",
                          CostPaints(acc, fetched.materials, 1, data.length.n, data.width.n),
                          ret, err, faults, idx)
       ELSE Go("extras", Acc, ret, err, faults, idx)
    /\ UNCHANGED extraResults

----------------------------------------------------------------------------
(* The extra-items overlay at the end of a handler.                        *)

\* the store read of this processExtraMaterials run that fails (0: none)
FailAts == IF faults > 0 THEN 0..MaxExtras ELSE {0}

\* lines 482-491 (and 1769-1778, 1949-1958, 2024-2033, 2172-2181)
Extras ==
    /\ pc = "extras"
    /\ IF Truthy(data.extraMaterials)
       THEN \E failAt \in FailAts :
              LET extraResult == processExtraMaterials(data.extraMaterials, Acc, failAt)
              IN  /\ failAt = 0 \/ failAt <= extraResult.n
                  /\ HandlerEnds(MergeExtras(Acc, extraResult),
                                 IF failAt = 0 THEN faults ELSE faults - 1)
                  /\ extraResults' = extraResult.extraResults
       ELSE HandlerEnds(Acc, faults) /\ UNCHANGED extraResults

\* lines 2183-2208
ExtraOnly ==
    /\ pc = "extraOnly"
    /\ IF ~Truthy(data.extraMaterials) \/ data.extraMaterials.t # "array"
          \/ Len(data.extraMaterials.a) = 0
       THEN HandlerRejects(Acc, "a non-empty extraMaterials array is required", faults)
            /\ UNCHANGED extraResults
       ELSE \E failAt \in FailAts :
              LET extraResult == processExtraMaterials(data.extraMaterials, Acc, failAt)
              IN  /\ failAt = 0 \/ failAt <= extraResult.n
                  /\ HandlerEnds(MergeExtras(Acc, extraResult),
                                 IF failAt = 0 THEN faults ELSE faults - 1)
                  /\ extraResults' = extraResult.extraResults

----------------------------------------------------------------------------
(* calculateMaterials, lines 2211-2264: after the handler.                 *)

\* lines 2212-2252: const result = await tabHandlers[tabName]();
\* if (!result.success) return result; ... return { success: true, ... }
HandlerReturned ==
    /\ pc = "returned"
    /\ CASE ret.kind = "undefined" ->
              \* result.success: a property read of undefined
              /\ pc' = "catch"
              /\ err' = "TypeError: cannot read properties of undefined (reading 'success')"
              /\ UNCHANGED response
         [] ret.kind = "object" /\ ~ret.success ->
              /\ pc' = "done"
              /\ response' = Failure(ret.error)
              /\ UNCHANGED err
         [] ret.kind = "other" ->
              \* a string or an empty object has no truthy success: it is returned as it is
              /\ pc' = "done"
              /\ response' = NotAResult(ret.error)
              /\ UNCHANGED err
         [] OTHER ->
              \* lines 2236-2252: the analytics write and the success return
              \E ok \in LogOutcomes :
                 IF ok THEN /\ pc' = "done"
                            /\ response' = Success(results, totalCost)
                            /\ UNCHANGED err
                 ELSE /\ pc' = "catch"
                      /\ err' = "analytics write failed"
                      /\ UNCHANGED response
    /\ UNCHANGED <<outside, fetch, req, analytics, faults, idx, results, totalCost, extraResults,
                   costed, calls, ret>>

\* lines 2253-2264: the catch block; its own analytics write is not guarded
Catch ==
    /\ pc = "catch"
    /\ \E ok \in LogOutcomes :
         response' = IF ok THEN Failure(err) ELSE Thrown("analytics write failed")
    /\ pc' = "done"
    /\ UNCHANGED <<outside, fetch, req, analytics, faults, idx, results, totalCost, extraResults,
                   costed, calls, ret, err>>

----------------------------------------------------------------------------
(* Steps the remaining handlers share.                                     *)

\* CostSlot at one unit, whatever the slot's quantity
CostSlotOneUnit(acc, id, quantity, src) ==
    LET material == Catalog[id]
        cost == 1000 * material.price
    IN  PushUnlessHiddenAndAdd(acc,
            LineItem(id, src, ToFixed2(1000), material.unit, cost, material.isHidden),
            cost)

\* lines 1900-1913 (and 2000-2011, 2078-2089): a resolved material of a slot
CostSlot(acc, id, quantity, src) ==
    LET material == Catalog[id]
        cost == quantity * material.price
    IN  PushUnlessHiddenAndAdd(acc,
            LineItem(id, src, ToFixed2(quantity), material.unit, cost, material.isHidden),
            cost)

\* CostCategory that costs one unit of each material, whatever its catalog quantity
RECURSIVE CostCategoryAtOneUnit(_, _, _)
CostCategoryAtOneUnit(acc, materials, i) ==
    IF i > Len(materials) THEN acc
    ELSE LET id == materials[i]
             material == Catalog[id]
             materialCost == 1000 * material.price
         IN  IF material.price = 0 THEN CostCategoryAtOneUnit(acc, materials, i + 1)
             ELSE CostCategoryAtOneUnit(
                      PushUnlessHiddenAndAdd(acc,
                          LineItem(id, "category", ToFixed2(1000),
                                   UnitOr(material.unit, "sht."), materialCost,
                                   material.isHidden),
                          materialCost),
                      materials, i + 1)

\* lines 1742-1765 (and 2145-2168): the materials of a toggle's category
RECURSIVE CostCategory(_, _, _)
CostCategory(acc, materials, i) ==
    IF i > Len(materials) THEN acc
    ELSE LET id == materials[i]
             material == Catalog[id]
             \* material.quantity || 1
             quantity == IF material.quantity # 0 THEN material.quantity ELSE 1000
             materialCost == quantity * material.price
         IN  IF material.price = 0 THEN CostCategory(acc, materials, i + 1)
             ELSE CostCategory(
                      PushUnlessHiddenAndAdd(acc,
                          LineItem(id, "category", ToFixed2(quantity),
                                   UnitOr(material.unit, "sht."), materialCost,
                                   material.isHidden),
                          materialCost),
                      materials, i + 1)

\* a toggle's category is fetched and costed when the toggle is 'yes'
ToggleStep(entry, next) ==
    IF entry.toggle = Yes
    THEN \E failPage \in FailPages(entry.category) :
           LET fetched == fetchAllMaterials(entry.category, ITEMS_PER_PAGE, failPage)
               acc == [Acc EXCEPT !.calls = @ \o fetched.calls]
           IN  IF ~fetched.ok THEN FetchThrows(acc, faults - 1)
               ELSE Go(next.pc, CostCategory(acc, fetched.materials, 1), ret, err, faults,
                       next.idx)
    ELSE Go(next.pc, Acc, ret, err, faults, next.idx)

(* A (type, quantity) slot of 'Elektrika' and 'Mebel', lines 1980-2022 and  *)
(* 2058-2100.  item.type.split is no function when type is not a string.    *)
ItemStep(item, next) ==
    IF Truthy(item.type) /\ ~NotPositiveNumber(item.quantity)
    THEN IF ~IsString(item.type)
         THEN Go("catch", Acc, ret, "TypeError: item.type.split is not a function", faults, idx)
         ELSE \E storeFails \in FaultChoices :
                LET materialId == Split0(item.type.s)
                    materialResult == getMaterial(materialId, storeFails)
                    acc == Called(Acc, "getMaterial", materialId)
                    f == IF storeFails THEN faults - 1 ELSE faults
                IN  IF materialResult.success
                    THEN LET material == Catalog[materialResult.id]
                         IN  IF MissingPriceOrUnit(material)
                             THEN Go(next.pc, acc, ret, err, f, next.idx)
                             ELSE Go(next.pc,
                                     CostSlot(acc, materialResult.id, item.quantity.n, "item"),
                                     ret, err, f, next.idx)
                    ELSE Go(next.pc, acc, ret, err, f, next.idx)
    ELSE Go(next.pc, Acc, ret, err, faults, next.idx)

\* the next iteration of a for-loop over n entries, or the step after the loop
NextOf(loop, n, after) ==
    IF idx < n THEN [pc |-> loop, idx |-> idx + 1] ELSE [pc |-> after, idx |-> 1]

----------------------------------------------------------------------------
(* 'Na zaezd', lines 1705-1779.                                            *)

EntryValidate ==
    /\ pc = "entryValidate"
    /\ IF \/ ~IsString(data.entryListToggle)
          \/ ~IsString(data.entryFastenersToggle)
          \/ ~IsString(data.entryTilingToggle)
       THEN HandlerRejects(Acc, "invalid data for Na zaezd", faults)
       ELSE Go("entryToggle", Acc, ret, err, faults, 1)
    /\ UNCHANGED extraResults

\* lines 1724-1728
categoriesToCheck ==
    <<[toggle |-> data.entryListToggle, category |-> Cat("Na zaezd", "Spisok na zaezd")],
      [toggle |-> data.entryFastenersToggle, category |-> Cat("Na zaezd", "Krepezh")],
      [toggle |-> data.entryTilingToggle, category |-> Cat("Na zaezd", "Plitochnye raboty")]>>

\* lines 1730-1767: one iteration of the loop
EntryToggle ==
    /\ pc = "entryToggle"
    /\ ToggleStep(categoriesToCheck[idx], NextOf("entryToggle", 3, "extras"))
    /\ UNCHANGED extraResults

----------------------------------------------------------------------------
(* 'Elektrika', lines 1960-2034.                                           *)

\* lines 1973-1978
electricItems ==
    <<[type |-> data.cableType, quantity |-> data.cableQuantity],
      [type |-> data.switchType, quantity |-> data.switchQuantity],
      [type |-> data.socketType, quantity |-> data.socketQuantity],
      [type |-> data.spotType, quantity |-> data.spotQuantity]>>

\* lines 1980-2022: one iteration of the loop
Electric ==
    /\ pc = "electric"
    /\ ItemStep(electricItems[idx], NextOf("electric", 4, "extras"))
    /\ UNCHANGED extraResults

----------------------------------------------------------------------------
(* 'Mebel', lines 2035-2182.                                               *)

\* lines 2048-2056
furnitureItems ==
    <<[type |-> data.furnitureMaterial, quantity |-> Num(1000)],
      [type |-> data.shelfTopMaterial, quantity |-> data.shelfTopQuantity],
      [type |-> data.shelfBottomMaterial, quantity |-> data.shelfBottomQuantity]>>

\* lines 2058-2100: one iteration of the loop
FurnitureItems ==
    /\ pc = "furnitureItems"
    /\ ItemStep(furnitureItems[idx], NextOf("furnitureItems", 3, "furniturePaint"))
    /\ UNCHANGED extraResults

\* lines 2109-2129: the loop over the paint materials, one unit each
RECURSIVE CostFurniturePaints(_, _, _)
CostFurniturePaints(acc, paintMaterials, i) ==
    IF i > Len(paintMaterials) THEN acc
    ELSE LET id == paintMaterials[i]
             paintMaterial == Catalog[id]
             paintCost == 1000 * paintMaterial.price
         IN  IF paintMaterial.price = 0 THEN CostFurniturePaints(acc, paintMaterials, i + 1)
             ELSE CostFurniturePaints(
                      PushAndAdd(acc,
                          LineItem(id, "paint", Num(1000), UnitOr(paintMaterial.unit, "l."),
                                   paintCost, FALSE),
                          paintCost),
                      paintMaterials, i + 1)

\* lines 2102-2130
FurniturePaint ==
    /\ pc = "furniturePaint"
    /\ IF data.furniturePainting = Yes
       THEN \E failPage \in FailPages(Cat("Mebel", "Pokraska mebeli")) :
              LET fetched == fetchAllMaterials(Cat("Mebel", "Pokraska mebeli"),
                                               ITEMS_PER_PAGE, failPage)
                  acc == [Acc EXCEPT !.calls = @ \o fetched.calls]
              IN  IF ~fetched.ok THEN FetchThrows(acc, faults - 1)
                  ELSE Go("furnitureToggle", CostFurniturePaints(acc, fetched.materials, 1),
                          ret, err, faults, 1)
       ELSE Go("furnitureToggle", Acc, ret, err, faults, 1)
    /\ UNCHANGED extraResults

\* lines 2132-2135
additionalItems ==
    <<[toggle |-> data.stoveSide, category |-> Cat("Mebel", "Bok u pechki")],
      [toggle |-> data.countertop, category |-> Cat("Mebel", "Stoleshnitsa")]>>

\* lines 2137-2170: one iteration of the loop
FurnitureToggle ==
    /\ pc = "furnitureToggle"
    /\ ToggleStep(additionalItems[idx], NextOf("furnitureToggle", 2, "extras"))
    /\ UNCHANGED extraResults

----------------------------------------------------------------------------
(* 'Osteklenie', lines 1780-1959.                                          *)

\* lines 1795-1800 and 1829
InvalidGlazing(d) ==
    \/ ~Truthy(d.windowType)
    \/ NotPositiveNumber(d.windowQuantity)
    \/ ~(IsString(d.windowType) /\ Len(d.windowType.s) = 1
         /\ d.windowType.s[1] \in validVariants)

GlazingValidate ==
    /\ pc = "glazingValidate"
    /\ IF InvalidGlazing(data)
       THEN HandlerRejects(Acc, "invalid data for Osteklenie", faults)
       ELSE Go("glazingSlot", Acc, ret, err, faults, 1)
    /\ UNCHANGED extraResults

WindowCategory == Cat("Osteklenie", "Okno")

\* lines 1841-1850
glazingCategories ==
    <<[value |-> data.glazingType, category |-> Cat("Osteklenie", "Chto delaem")],
      [value |-> data.frameType, category |-> Cat("Osteklenie", "Osnovnaya rama")],
      [value |-> data.exteriorFinish, category |-> Cat("Osteklenie", "Naruzhnaya otdelka")],
      [value |-> data.balconyBlock,
       category |-> Cat("Osteklenie", "Zamena balkonnogo bloka")],
      [value |-> data.windowType, category |-> WindowCategory],
      [value |-> data.windowSlopes, category |-> Cat("Osteklenie", "Otkosy dlya okon")],
      [value |-> data.sillType, category |-> Cat("Osteklenie", "Podokonniki")],
      [value |-> data.roofType, category |-> Cat("Osteklenie", "Krysha")]>>

\* lines 1923-1944: the hidden materials of the window variant
RECURSIVE CostWindowHidden(_, _, _, _)
CostWindowHidden(acc, hiddenMaterials, i, windowQuantity) ==
    IF i > Len(hiddenMaterials) THEN acc
    ELSE LET id == hiddenMaterials[i]
             hiddenMaterial == Catalog[id]
             hiddenCost == windowQuantity * hiddenMaterial.price
         IN  IF hiddenMaterial.price = 0
             THEN CostWindowHidden(acc, hiddenMaterials, i + 1, windowQuantity)
             ELSE CostWindowHidden(
                      PushAndAdd(acc,
                          LineItem(id, "windowHidden", ToFixed2(windowQuantity),
                                   UnitOr(hiddenMaterial.unit, "sht."), hiddenCost, TRUE),
                          hiddenCost),
                      hiddenMaterials, i + 1, windowQuantity)

(* The window-type slot, lines 1855-1872 and 1877-1945.  fail is the store  *)
(* read of the step that fails: 1 the listing of 'Osteklenie:Okno', 2 the   *)
(* getMaterial, 3 the listing of the hidden category, 0 none.  The result   *)
(* is the accumulators, whether the step threw, and whether the failing     *)
(* read was reached.                                                        *)
WindowSlot(acc0, value, windowQuantity, fail) ==
    LET listed == fetchAllMaterials(WindowCategory, ITEMS_PER_PAGE,
                                    IF fail = 1 THEN 0 ELSE 0 - 1)
        acc1 == [acc0 EXCEPT !.calls = @ \o listed.calls]
        named == SelectSeq(listed.materials, LAMBDA id : Catalog[id].name = value)
        materialResult == getMaterial(<<named[1]>>, fail = 2)
        acc2 == Called(acc1, "getMaterial", <<named[1]>>)
        material == Catalog[materialResult.id]
        acc3 == CostSlot(acc2, materialResult.id, windowQuantity, "option")
        hiddenCategory == WindowCategory \o <<":">> \o value \o <<":", "Skrytye">>
        hidden == fetchAllMaterials(hiddenCategory, ITEMS_PER_PAGE,
                                    IF fail = 3 THEN 0 ELSE 0 - 1)
        acc4 == [acc3 EXCEPT !.calls = @ \o hidden.calls]
    IN  IF ~listed.ok THEN [acc |-> acc1, threw |-> TRUE, reached |-> 1]
        ELSE IF named = <<>> THEN [acc |-> acc1, threw |-> FALSE, reached |-> 1]
        ELSE IF ~materialResult.success THEN [acc |-> acc2, threw |-> FALSE, reached |-> 2]
        ELSE IF MissingPriceOrUnit(material)
             THEN [acc |-> acc2, threw |-> FALSE, reached |-> 2]
        ELSE IF ~hidden.ok THEN [acc |-> acc4, threw |-> TRUE, reached |-> 3]
        ELSE [acc |-> CostWindowHidden(acc4, hidden.materials, 1, windowQuantity),
              threw |-> FALSE, reached |-> 3]

\* lines 1852-1947: one iteration of the loop
GlazingSlot ==
    /\ pc = "glazingSlot"
    /\ LET entry == glazingCategories[idx]
           next == NextOf("glazingSlot", 8, "extras")
       IN  IF Truthy(entry.value) /\ entry.value # No
           THEN IF entry.category = WindowCategory
                THEN \E fail \in (IF faults > 0 THEN 0..3 ELSE {0}) :
                       LET step == WindowSlot(Acc, entry.value.s, data.windowQuantity.n, fail)
                           f == IF fail = 0 THEN faults ELSE faults - 1
                       IN  /\ fail <= step.reached
                           /\ IF step.threw THEN FetchThrows(step.acc, f)
                              ELSE Go(next.pc, step.acc, ret, err, f, next.idx)
                ELSE IF ~IsString(entry.value)
                     THEN Go("catch", Acc, ret, "TypeError: value.split is not a function",
                             faults, idx)
                     ELSE \E storeFails \in FaultChoices :
                            LET materialId == Split0(entry.value.s)
                                materialResult == getMaterial(materialId, storeFails)
                                acc == Called(Acc, "getMaterial", materialId)
                                f == IF storeFails THEN faults - 1 ELSE faults
                            IN  IF materialResult.success
                                   /\ ~MissingPriceOrUnit(Catalog[materialResult.id])
                                THEN Go(next.pc,
                                        CostSlot(acc, materialResult.id, 1000, "option"),
                                        ret, err, f, next.idx)
                                ELSE Go(next.pc, acc, ret, err, f, next.idx)
           ELSE Go(next.pc, Acc, ret, err, faults, next.idx)
    /\ UNCHANGED extraResults

----------------------------------------------------------------------------
(* The specifications.                                                     *)

Next ==
    \/ Receive
    \/ ValidateBase
    \/ Dispatch
    \/ GeoValidate
    \/ GeoFinish
    \/ GeoHidden
    \/ GeoInsulation
    \/ GeoPaint
    \/ EntryValidate
    \/ EntryToggle
    \/ GlazingValidate
    \/ GlazingSlot
    \/ Electric
    \/ FurnitureItems
    \/ FurniturePaint
    \/ FurnitureToggle
    \/ ExtraOnly
    \/ Extras
    \/ HandlerReturned
    \/ Catch

\* one request against the catalog, the analytics store answering every write
Init == InitWith(AllRequests, "up")
Spec == Init /\ [][Next]_vars

\* the same requests, the analytics store failing some writes
InitFlaky == InitWith(AllRequests, "flaky")
SpecFlaky == InitFlaky /\ [][Next]_vars

----------------------------------------------------------------------------
(* fetchAllMaterials, lines 44-80, one getMaterials call at a time: the    *)
(* loop of lines 50-75 with its locals page, allMaterials and hasMore.     *)
(* SpecFetch runs it on every category tag of the catalog and on one tag   *)
(* no material carries, with page sizes up to MaxPageSize and any page's   *)
(* request failing.                                                        *)

MaxPageSize == 3

FetchCategories ==
    UNION {Catalog[id].categories : id \in MaterialIds} \cup {Cat("Poly", "Pokraska sten")}

\* let page = 0; let allMaterials = []; let hasMore = true (lines 46-48)
FetchCall(category, itemsPerPage, failPage) ==
    [category |-> category, itemsPerPage |-> itemsPerPage, failPage |-> failPage,
     page |-> 0, allMaterials |-> <<>>, hasMore |-> TRUE, made |-> <<>>,
     status |-> "running"]

\* lines 50-75: one iteration of while (hasMore)
FetchPage ==
    /\ fetch.status = "running" /\ fetch.hasMore
    /\ LET request == [op |-> "getMaterials", key |-> fetch.category, page |-> fetch.page]
           materials == PageOf(fetch.category, fetch.page, fetch.itemsPerPage)
       IN  fetch' = IF fetch.page = fetch.failPage
                    THEN [fetch EXCEPT !.made = Append(@, request), !.status = "thrown"]
                    ELSE [fetch EXCEPT !.made = Append(@, request),
                                       !.allMaterials = @ \o materials,
                                       !.hasMore = hasMoreAfter(materials, fetch.itemsPerPage),
                                       !.page = @ + 1]
    /\ UNCHANGED <<outside, req, analytics, faults, pc, idx, results, totalCost, extraResults,
                   costed, calls, ret, err, response>>

\* lines 77-80: return allMaterials
FetchReturn ==
    /\ fetch.status = "running" /\ ~fetch.hasMore
    /\ fetch' = [fetch EXCEPT !.status = "returned"]
    /\ UNCHANGED <<outside, req, analytics, faults, pc, idx, results, totalCost, extraResults,
                   costed, calls, ret, err, response>>

InitFetch ==
    /\ \E category \in FetchCategories, itemsPerPage \in 1..MaxPageSize :
         \E failPage \in (0 - 1)..(Len(ListByCategory(category)) \div itemsPerPage) :
            fetch = FetchCall(category, itemsPerPage, failPage)
    /\ earlier = <<>>
    /\ parked = NoCall
    /\ manager = NoManager
    /\ req = Request("Poly", EmptyData)
    /\ analytics = "up"
    /\ faults = MaxFaults
    /\ pc = "fetch"
    /\ idx = 1
    /\ results = <<>>
    /\ totalCost = 0
    /\ extraResults = <<>>
    /\ costed = <<>>
    /\ calls = <<>>
    /\ ret = NoReturn
    /\ err = ""
    /\ response = Pending

NextFetch ==
    \/ FetchPage
    \/ FetchReturn

SpecFetch == InitFetch /\ [][NextFetch]_vars

----------------------------------------------------------------------------
(* calculateMaterials called again with the same request once it has        *)
(* returned: the catalog is the same, the store answers every read, and the *)
(* second call runs the code of the first from its first line.              *)

\* calls made after the first one
MaxRepeats == 1

\* Resume that leaves results and totalCost as they are: the two calls share them
ResumeSharingResults(call) ==
    /\ req' = call.req
    /\ pc' = call.pc
    /\ idx' = call.idx
    /\ extraResults' = call.extraResults
    /\ costed' = call.costed
    /\ calls' = call.calls
    /\ ret' = call.ret
    /\ err' = call.err
    /\ response' = call.response
    /\ UNCHANGED <<results, totalCost>>

\* the variables of the running call become those of call
Resume(call) ==
    /\ req' = call.req
    /\ pc' = call.pc
    /\ idx' = call.idx
    /\ results' = call.results
    /\ totalCost' = call.totalCost
    /\ extraResults' = call.extraResults
    /\ costed' = call.costed
    /\ calls' = call.calls
    /\ ret' = call.ret
    /\ err' = call.err
    /\ response' = call.response

\* what a call that returned gave its caller, and what its handler had accumulated
Outcome ==
    [req |-> req, response |-> response, results |-> LineItems(results),
     totalCost |-> totalCost]

\* the caller calls calculateMaterials(req) again
CallAgain ==
    /\ pc = "done"
    /\ Len(earlier) < MaxRepeats
    /\ earlier' = Append(earlier, Outcome)
    /\ Resume(NewCall(req, InvocationLocals))
    /\ UNCHANGED <<parked, manager, fetch, analytics, faults>>

NextTwice ==
    \/ Next
    \/ CallAgain

InitTwice == InitCall(AllRequests, "up", 0)
SpecTwice == InitTwice /\ [][NextTwice]_vars

----------------------------------------------------------------------------
(* Two calls of calculateMaterials in one process.  Node runs one call at   *)
(* a time and leaves it only at an await; every step of the model ends at   *)
(* one, so the other call may run between any two steps.  SpecPair first    *)
(* runs each of the two requests alone, then both of them interleaved, the  *)
(* store answering every read.                                              *)

PairRequests ==
    {Request("Glavnaya stena",
             [EmptyData EXCEPT !.length = Num(RoomLength), !.width = Num(RoomHeight),
                               !.finishType = Key("f1"), !.insulationType = Key("f5"),
                               !.wallPainting = Yes,
                               !.extraMaterials = Arr(<<Extra(Key("f2"), Num(1125)),
                                                        Extra(Key("f1"), Num(2000))>>)]),
     Request("Potolok",
             [EmptyData EXCEPT !.length = Num(RoomLength), !.width = Num(RoomHeight),
                               !.finishType = Key("f6"), !.ceilingPainting = Yes]),
     Request("Poly",
             [EmptyData EXCEPT !.length = Num(0), !.width = Num(RoomHeight),
                               !.finishType = Key("f1")]),
     Request("BL stena",
             [EmptyData EXCEPT !.length = Num(RoomLength), !.width = Num(RoomHeight),
                               !.finishType = Key("f3")]),
     Request("Na zaezd",
             [EmptyData EXCEPT !.entryListToggle = Yes, !.entryFastenersToggle = Yes,
                               !.entryTilingToggle = No]),
     Request("Osteklenie",
             [EmptyData EXCEPT !.windowType = Str(<<"Balkon 3m.">>),
                               !.windowQuantity = Num(2000), !.glazingType = Key("f1"),
                               !.frameType = Key("f2"),
                               !.extraMaterials = Arr(<<Extra(Key("zz"), Num(1000))>>)]),
     Request("Osteklenie", [EmptyData EXCEPT !.windowType = Str(<<"Terrasa">>),
                                             !.windowQuantity = Num(2000)]),
     Request("Elektrika",
             [EmptyData EXCEPT !.cableType = Key("f1"), !.cableQuantity = Num(3000),
                               !.spotType = Key("f2"), !.spotQuantity = Num(2500)]),
     Request("Mebel",
             [EmptyData EXCEPT !.furnitureMaterial = Key("f1"), !.furniturePainting = Yes,
                               !.shelfTopMaterial = Key("f1"),
                               !.shelfTopQuantity = Num(2000),
                               !.stoveSide = Yes, !.countertop = Yes]),
     Request("Dop. parametr",
             [EmptyData EXCEPT !.extraMaterials = Arr(<<Extra(Key("f1"), Num(2000)),
                                                        Extra(Key("f2"), Num(1125))>>)]),
     Request("Dop. parametr", EmptyData),
     Request("Podval", EmptyData),
     [Request("Poly", EmptyData) EXCEPT !.authToken = <<>>]}

\* the first request has returned: the second one is called, alone as well
CallOther ==
    /\ pc = "done"
    /\ earlier = <<>>
    /\ \E other \in PairRequests : Resume(NewCall(other, InvocationLocals))
    /\ earlier' = <<ThisCall>>
    /\ UNCHANGED <<parked, manager, fetch, analytics, faults>>

\* both have returned: both are called again, the second before the first has
\* run a step
CallBoth ==
    /\ pc = "done"
    /\ Len(earlier) = 1
    /\ earlier' = Append(earlier, ThisCall)
    /\ Resume(NewCall(earlier[1].req, InvocationLocals))
    /\ parked' = [who |-> 2, call |-> NewCall(req, InvocationLocals)]
    /\ UNCHANGED <<manager, fetch, analytics, faults>>

\* the running call is suspended at its await and the other call runs on
Switch ==
    /\ Len(earlier) = 2
    /\ parked.call.pc # "done"
    /\ parked' = [who |-> 3 - parked.who, call |-> ThisCall]
    /\ Resume(parked.call)
    /\ UNCHANGED <<earlier, manager, fetch, analytics, faults>>

NextPair ==
    \/ Next
    \/ CallOther
    \/ CallBoth
    \/ Switch

InitPair == InitCall(PairRequests, "up", 0)
SpecPair == InitPair /\ [][NextPair]_vars

----------------------------------------------------------------------------
(* materialsManager.js: validateMaterialData, lines 17-95.  The data of a   *)
(* material is a record of JavaScript values, Absent for a property the     *)
(* object does not have; a string is a sequence of tokens and its length    *)
(* the number of characters of its tokens.                                  *)

MaxNameLength == 100
MaxCategoryLength == 200
MaxPrice == 1000000
MaxUnitLength == 20
MaxDimension == 100000
MaxColorLength == 50

RECURSIVE StrLen(_)
StrLen(s) == IF s = <<>> THEN 0 ELSE Len(Head(s)) + StrLen(Tail(s))

\* the index of the first colon of a string, 0 when it has none
FirstColon(s) ==
    IF \A i \in 1..Len(s) : s[i] # ":" THEN 0
    ELSE CHOOSE k \in 1..Len(s) : s[k] = ":" /\ \A j \in 1..(k - 1) : s[j] # ":"

\* categoryFormat with the colon optional: /^[^:]+/
categoryFormatAnyPrefix(s) == s # <<>> /\ s[1] # ":"

\* line 48: /^[^:]+:[^:]+/.test(category)
categoryFormat(s) ==
    /\ FirstColon(s) >= 2
    /\ FirstColon(s) < Len(s)
    /\ s[FirstColon(s) + 1] # ":"

Invalid(error) == [success |-> FALSE, error |-> error]

\* lines 40-51: the check of one category
InvalidCategory(category) ==
    IF ~IsString(category) \/ Trim(category.s) = <<>>
    THEN "Each category must be a non-empty string"
    ELSE IF StrLen(category.s) > MaxCategoryLength
         THEN "Category name must not exceed 200 characters"
    ELSE IF ~categoryFormat(category.s) THEN "Invalid category format"
    ELSE ""

\* x < 0 and x > limit of a value whose typeof is 'number': false for NaN
Below(x, limit) == x.t = "number" /\ x.n < limit
Above(x, limit) == x.t = "number" /\ x.n > limit
AtMost(x, limit) == x.t = "number" /\ x.n <= limit

\* lines 72-86: the dimensions, when the material has any
InvalidDimensions(dimensions) ==
    IF ~Truthy(dimensions) THEN ""
    ELSE IF dimensions.t = "array" THEN "Invalid dimensions"
    ELSE IF dimensions.t # "object" THEN "Dimensions must be an object or null"
    ELSE LET length == dimensions.a[1]
             width == dimensions.a[2]
             height == dimensions.a[3]
         IN  IF \/ ~IsNumber(length) \/ AtMost(length, 0)
                \/ ~IsNumber(width) \/ AtMost(width, 0)
                \/ (height # Undef /\ (~IsNumber(height) \/ Below(height, 0)))
             THEN "Invalid dimensions"
             ELSE IF \/ Above(length, MaxDimension) \/ Above(width, MaxDimension)
                     \/ (Truthy(height) /\ Above(height, MaxDimension))
                  THEN "Dimensions must not exceed 100,000 mm"
                  ELSE ""

\* lines 36-51: the first category that fails its check
RECURSIVE InvalidCategories(_, _)
InvalidCategories(categories, i) ==
    IF i > Len(categories) THEN ""
    ELSE IF InvalidCategory(categories[i]) # "" THEN InvalidCategory(categories[i])
    ELSE InvalidCategories(categories, i + 1)

requiredFields == <<"name", "categories", "price", "quantity", "unit">>

\* lines 53-95: what follows the categories
validateRest(d) ==
    IF ~IsNumber(d.price) \/ Below(d.price, 0) THEN Invalid("Price must be a non-negative number")
    ELSE IF Above(d.price, MaxPrice) THEN Invalid("Price must not exceed 1,000,000")
    ELSE IF ~IsNumber(d.quantity) \/ Below(d.quantity, 0)
         THEN Invalid("Quantity must be a non-negative number")
    ELSE IF ~IsString(d.unit) \/ Trim(d.unit.s) = <<>>
         THEN Invalid("Unit must be a non-empty string")
    ELSE IF StrLen(d.unit.s) > MaxUnitLength THEN Invalid("Unit must not exceed 20 characters")
    ELSE IF InvalidDimensions(d.dimensions) # "" THEN Invalid(InvalidDimensions(d.dimensions))
    ELSE IF Truthy(d.color) /\ (~IsString(d.color) \/ StrLen(d.color.s) > MaxColorLength)
         THEN Invalid("Color must be a string not exceeding 50 characters")
    ELSE [success |-> TRUE, error |-> ""]

\* validateMaterialData, lines 17-95
validateMaterialData(d) ==
    IF ~d.isObject THEN Invalid("Data must be an object")
    ELSE IF \E i \in 1..Len(requiredFields) : d[requiredFields[i]] = Absent
         THEN Invalid("Missing required field")
    ELSE IF ~IsString(d.name) \/ Trim(d.name.s) = <<>>
         THEN Invalid("Name must be a non-empty string")
    ELSE IF StrLen(d.name.s) > MaxNameLength THEN Invalid("Name must not exceed 100 characters")
    ELSE IF d.categories.t # "array" \/ d.categories.a = <<>>
         THEN Invalid("Categories must be a non-empty array")
    ELSE IF InvalidCategories(d.categories.a, 1) # ""
         THEN Invalid(InvalidCategories(d.categories.a, 1))
    ELSE validateRest(d)

(* validateMaterialData applied to one material.  SpecValidate draws the    *)
(* material from MaterialInputs: every combination of the values below.     *)

\* a string of n characters, in tokens of ten characters and of one
RunOf(n) == Str([i \in 1..(n \div 10) |-> "aaaaaaaaaa"] \o [i \in 1..(n % 10) |-> "a"])

MaterialData(name, categories, price, quantity, unit, dimensions, color) ==
    [isObject |-> TRUE, name |-> name, categories |-> categories, price |-> price,
     quantity |-> quantity, unit |-> unit, dimensions |-> dimensions, color |-> color]

CategoriesInputs ==
    {Arr(<<Str(Cat("Glavnaya stena", "Skrytye"))>>),
     Arr(<<Str(<<"Glavnaya stena">>)>>),
     Arr(<<Str(<<"Glavnaya stena", " ", "Skrytye">>)>>),
     Arr(<<Str(Cat("Glavnaya stena", "Skrytye")), Str(<<"Skrytye">>)>>),
     Arr(<<Str(Cat("Osteklenie", "Okno") \o <<":", "Balkon 3m.", ":", "Skrytye">>)>>),
     Arr(<<Str(<<":", "Skrytye">>)>>),
     Arr(<<Str(<<"Glavnaya stena", ":">>)>>),
     Arr(<<Str(<<"Glavnaya stena", ":", ":", "Skrytye">>)>>),
     Arr(<<Str(<<" ">>)>>),
     Arr(<<Num(3)>>),
     Arr(<<Str(RunOf(MaxCategoryLength).s \o <<":", "b">>)>>),
     Arr(<<Str(RunOf(MaxCategoryLength + 1).s)>>),
     Arr(<<>>),
     Str(Cat("Glavnaya stena", "Skrytye")),
     Absent}

MaterialInputs ==
    {MaterialData(name, categories, price, quantity, unit, dimensions, color) :
        name \in {Str(<<"Panel">>), Str(<<" ">>), RunOf(MaxNameLength + 1), Absent},
        categories \in CategoriesInputs,
        price \in {Num(0), Num(100), Num(0 - 1), Num(MaxPrice + 1), NaN, Str(<<"100">>)},
        quantity \in {Num(0), Num(0 - 1), Undef},
        unit \in {Str(<<"sht.">>), Str(<<" ">>), RunOf(MaxUnitLength + 1), Num(1)},
        dimensions \in {Absent, Null, Obj(Num(600), Num(300), Undef),
                        Obj(Num(600), Num(0), Undef), Obj(Num(600), Undef, Undef),
                        Obj(Num(600), Num(300), Num(0 - 1)),
                        Obj(Num(MaxDimension + 1), Num(300), Num(10)), Str(<<"600x300">>)},
        color \in {Absent, RunOf(MaxColorLength + 1)}}
    \cup
    {[MaterialData(Str(<<"Panel">>), Arr(<<Str(<<"Skrytye">>)>>), Num(100), Num(0),
                   Str(<<"sht.">>), Null, Absent) EXCEPT !.isObject = FALSE]}

InitValidate ==
    /\ manager \in {[status |-> "called", data |-> d, validation |-> Invalid("")] :
                        d \in MaterialInputs}
    /\ earlier = <<>>
    /\ parked = NoCall
    /\ fetch = NoFetch
    /\ req = Request("Poly", EmptyData)
    /\ analytics = "up"
    /\ faults = 0
    /\ pc = "validateMaterialData"
    /\ idx = 1
    /\ results = <<>>
    /\ totalCost = 0
    /\ extraResults = <<>>
    /\ costed = <<>>
    /\ calls = <<>>
    /\ ret = NoReturn
    /\ err = ""
    /\ response = Pending

\* const validation = validateMaterialData(data)  (lines 387 and 554)
Validate ==
    /\ manager.status = "called"
    /\ manager' = [manager EXCEPT !.status = "validated",
                                  !.validation = validateMaterialData(manager.data)]
    /\ UNCHANGED <<earlier, parked, fetch, req, analytics, faults, pc, idx, results,
                   totalCost, extraResults, costed, calls, ret, err, response>>

NextValidate ==
    \/ Validate

SpecValidate == InitValidate /\ [][NextValidate]_vars

----------------------------------------------------------------------------
(* materialsManager.js: the category cache (lines 6-10), getCategories      *)
(* (lines 104-195) and the three writes addMaterial, deleteMaterial and     *)
(* editMaterial (lines 379-629), each call stepped from await to await; the *)
(* calls of one process interleave at their awaits.  Of a document the      *)
(* store keeps what getCategories reads: its id and its categories.         *)
(* version counts the writes the store has applied; the version fields are  *)
(* history: which state of the store a list was computed from.              *)

\* getCategories calls and write calls of one run
MaxReads == 2
MaxWrites == 1
\* the clock: Date.now() at the start, and how far and how often it moves on
ClockStart == 1000000
ClockStep == 200000
MaxClockSteps == 2
\* categoryCache.ttl, line 9: 5 * 60 * 1000
CacheTtl == 300000
\* itemsPerPage of the getCategories calls
CategoriesPerPage == 2

TagOtdelka == Cat("Glavnaya stena", "Otdelka")
TagSkrytye == Cat("Poly", "Skrytye")
TagPotolok == Cat("Potolok", "Otdelka")
\* the tags in the order Array.prototype.sort gives the strings of the source
TagOrder == <<TagOtdelka, TagSkrytye, TagPotolok>>

\* Array.from(categoriesSet).sort()
sortedCategories(categoriesSet) == SelectSeq(TagOrder, LAMBDA tag : tag \in categoriesSet)
\* list.slice(page * itemsPerPage, page * itemsPerPage + itemsPerPage)
Slice(list, page, itemsPerPage) ==
    SubSeq(list, page * itemsPerPage + 1, Min(Len(list), (page + 1) * itemsPerPage))

StoredMaterials ==
    {[id |-> "m1", categories |-> {TagOtdelka}],
     [id |-> "m2", categories |-> {TagOtdelka, TagSkrytye}]}

\* the data of the write calls: a valid material and one with a category without colon
NewMaterial ==
    MaterialData(Str(<<"Panel">>), Arr(<<Str(TagPotolok)>>), Num(100), Num(0),
                 Str(<<"sht.">>), Null, Absent)
BadMaterial == [NewMaterial EXCEPT !.categories = Arr(<<Str(<<"Potolok">>)>>)]
WriteCalls ==
    {[op |-> "addMaterial", key |-> Undef, data |-> d] : d \in {NewMaterial, BadMaterial}}
    \cup {[op |-> "deleteMaterial", key |-> k, data |-> NewMaterial] :
              k \in {Str(<<"m2">>), Str(<<"zz">>), Undef}}
    \cup {[op |-> "editMaterial", key |-> k, data |-> d] :
              k \in {Str(<<"m1">>), Str(<<"zz">>), Undef}, d \in {NewMaterial, BadMaterial}}

\* categoryCache.data = null; categoryCache.lastUpdated = 0
ClearedCache == [isNull |-> TRUE, list |-> <<>>, lastUpdated |-> 0, version |-> 0]

NoWrite ==
    [op |-> "none", key |-> Undef, data |-> NewMaterial, pc |-> "none", success |-> FALSE,
     cleared |-> FALSE, version |-> 0]

InitManager ==
    /\ manager = [status |-> "running", store |-> StoredMaterials, version |-> 0,
                  cache |-> ClearedCache, now |-> ClockStart, write |-> NoWrite, writes |-> 0,
                  reads |-> <<>>, returnedVersion |-> 0]
    /\ earlier = <<>>
    /\ parked = NoCall
    /\ fetch = NoFetch
    /\ req = Request("Poly", EmptyData)
    /\ analytics = "up"
    /\ faults = MaxFaults
    /\ pc = "materialsManager"
    /\ idx = 1
    /\ results = <<>>
    /\ totalCost = 0
    /\ extraResults = <<>>
    /\ costed = <<>>
    /\ calls = <<>>
    /\ ret = NoReturn
    /\ err = ""
    /\ response = Pending

\* a step of materialsManager.js
ManagerStep(m, f) ==
    /\ manager' = m
    /\ faults' = f
    /\ UNCHANGED <<earlier, parked, fetch, req, analytics, pc, idx, results, totalCost,
                   extraResults, costed, calls, ret, err, response>>

\* time passes
Tick ==
    /\ manager.now < ClockStart + MaxClockSteps * ClockStep
    /\ ManagerStep([manager EXCEPT !.now = @ + ClockStep], faults)

\* the categories of the documents of the collection
StoredCategories(store) == UNION {doc.categories : doc \in store}

\* getCategories(page, itemsPerPage) is called
GetCategories ==
    /\ Len(manager.reads) < MaxReads
    /\ \E page \in {0, 0 - 1} :
         ManagerStep([manager EXCEPT !.reads =
                         Append(@, [page |-> page, itemsPerPage |-> CategoriesPerPage,
                                    pc |-> "check", snapshot |-> {}, snapshotVersion |-> 0,
                                    success |-> FALSE, categories |-> <<>>,
                                    servedVersion |-> 0,
                                    floor |-> manager.returnedVersion])],
                     faults)

\* line 119: categoryCache.data && (Date.now() - categoryCache.lastUpdated) < ttl
CacheFresh(cache, now) == ~cache.isNull /\ now - cache.lastUpdated < CacheTtl

\* lines 108-134: the parameter check, the cache check and the return from the cache
CategoriesCheck ==
    \E i \in 1..Len(manager.reads) :
       LET read == manager.reads[i]
       IN  /\ read.pc = "check"
           /\ ManagerStep(
                 [manager EXCEPT !.reads[i] =
                     IF read.page < 0 \/ read.itemsPerPage <= 0 THEN [read EXCEPT !.pc = "catch"]
                     ELSE IF CacheFresh(manager.cache, manager.now)
                          THEN [read EXCEPT !.pc = "returned", !.success = TRUE,
                                            !.categories = Slice(manager.cache.list, read.page,
                                                                 read.itemsPerPage),
                                            !.servedVersion = manager.cache.version]
                          ELSE [read EXCEPT !.pc = "read"]],
                 faults)

\* line 134: the store answers db.collection('materials').select('categories').get()
CategoriesRead ==
    \E i \in 1..Len(manager.reads) : \E storeFails \in FaultChoices :
       LET read == manager.reads[i]
       IN  /\ read.pc = "read"
           /\ ManagerStep(
                 [manager EXCEPT !.reads[i] =
                     IF storeFails THEN [read EXCEPT !.pc = "catch"]
                     ELSE [read EXCEPT !.pc = "update",
                                       !.snapshot = StoredCategories(manager.store),
                                       !.snapshotVersion = manager.version]],
                 IF storeFails THEN faults - 1 ELSE faults)

\* lines 135-149: the call goes on after the await and fills the cache
CategoriesUpdate ==
    \E i \in 1..Len(manager.reads) :
       LET read == manager.reads[i]
       IN  /\ read.pc = "update"
           /\ ManagerStep(
                 [manager EXCEPT !.reads[i] = [read EXCEPT !.pc = "log"],
                                 !.cache = [isNull |-> FALSE,
                                            list |-> sortedCategories(read.snapshot),
                                            lastUpdated |-> manager.now,
                                            version |-> read.snapshotVersion]],
                 faults)

\* lines 162-171: the analytics write and the return
CategoriesReturn ==
    \E i \in 1..Len(manager.reads) : \E ok \in LogOutcomes :
       LET read == manager.reads[i]
       IN  /\ read.pc = "log"
           /\ ManagerStep(
                 [manager EXCEPT !.reads[i] =
                     IF ok THEN [read EXCEPT !.pc = "returned", !.success = TRUE,
                                             !.categories =
                                                 Slice(sortedCategories(read.snapshot),
                                                       read.page, read.itemsPerPage),
                                             !.servedVersion = read.snapshotVersion]
                     ELSE [read EXCEPT !.pc = "catch"]],
                 faults)

\* lines 172-194: the catch block
CategoriesCatch ==
    \E i \in 1..Len(manager.reads) :
       LET read == manager.reads[i]
       IN  /\ read.pc = "catch"
           /\ ManagerStep([manager EXCEPT !.reads[i] = [read EXCEPT !.pc = "returned"]],
                          faults)

\* addMaterial(data), deleteMaterial(key) or editMaterial({id: key, ...data}) is called
WriteCall ==
    /\ manager.writes < MaxWrites
    /\ manager.write.pc \in {"none", "returned"}
    /\ \E call \in WriteCalls :
         ManagerStep([manager EXCEPT !.writes = @ + 1,
                                     !.write = [NoWrite EXCEPT !.op = call.op,
                                                               !.key = call.key,
                                                               !.data = call.data,
                                                               !.pc = "begin"]],
                     faults)

\* !key || typeof key !== 'string' (lines 465 and 548)
InvalidKey(key) == ~Truthy(key) \/ ~IsString(key)

\* the call up to its first await: lines 383-402, 463-474, 545-569
WriteBegin ==
    /\ manager.write.pc = "begin"
    /\ LET write == manager.write
           validation == validateMaterialData(write.data)
       IN  ManagerStep(
             [manager EXCEPT !.write.pc =
                 CASE write.op = "addMaterial" ->
                        IF validation.success THEN "set" ELSE "returned"
                   [] write.op = "deleteMaterial" ->
                        IF InvalidKey(write.key) THEN "catch" ELSE "get"
                   [] OTHER ->
                        IF InvalidKey(write.key) THEN "catch"
                        ELSE IF validation.success THEN "get" ELSE "returned"],
             faults)

\* lines 474-482 and 569-577: the store answers docRef.get()
WriteGet ==
    /\ manager.write.pc = "get"
    /\ \E storeFails \in FaultChoices :
         ManagerStep(
           [manager EXCEPT !.write.pc =
               IF storeFails THEN "catch"
               ELSE IF \E doc \in manager.store : doc.id = manager.write.key.s[1]
                    THEN "set" ELSE "returned"],
           IF storeFails THEN faults - 1 ELSE faults)

\* the collection after docRef.set(data), docRef.delete() or docRef.set(data, {merge})
Written(store, write) ==
    LET categories == {write.data.categories.a[i].s : i \in 1..Len(write.data.categories.a)}
    IN  CASE write.op = "addMaterial" -> store \cup {[id |-> "m3", categories |-> categories]}
          [] write.op = "deleteMaterial" -> {doc \in store : doc.id # write.key.s[1]}
          [] OTHER -> {doc \in store : doc.id # write.key.s[1]}
                      \cup {[id |-> write.key.s[1], categories |-> categories]}

\* lines 402, 487 and 580: the store applies the write, or fails
WriteSet ==
    /\ manager.write.pc = "set"
    /\ \E storeFails \in FaultChoices :
         ManagerStep(
           IF storeFails THEN [manager EXCEPT !.write.pc = "catch"]
           ELSE [manager EXCEPT !.write.pc = "invalidate",
                                !.write.version = manager.version + 1,
                                !.store = Written(@, manager.write),
                                !.version = @ + 1],
           IF storeFails THEN faults - 1 ELSE faults)

\* lines 405-406, 490-491 and 583-584: the call goes on after the await
WriteInvalidate ==
    /\ manager.write.pc = "invalidate"
    /\ ManagerStep([manager EXCEPT !.cache = ClearedCache,
                                   !.write.cleared = TRUE,
                                   !.write.pc = "log"],
                   faults)

\* lines 417-426, 502-510 and 595-604: the analytics write and return { success: true }
WriteReturn ==
    /\ manager.write.pc = "log"
    /\ \E ok \in LogOutcomes :
         ManagerStep(
           IF ok THEN [manager EXCEPT !.write.pc = "returned", !.write.success = TRUE,
                                      !.returnedVersion = manager.write.version]
           ELSE [manager EXCEPT !.write.pc = "catch"],
           faults)

\* the catch blocks (lines 427-449, 511-531, 605-627): return { success: false, error }
WriteCatch ==
    /\ manager.write.pc = "catch"
    /\ ManagerStep([manager EXCEPT !.write.pc = "returned"], faults)

NextManager ==
    \/ Tick
    \/ GetCategories
    \/ CategoriesCheck
    \/ CategoriesRead
    \/ CategoriesUpdate
    \/ CategoriesReturn
    \/ CategoriesCatch
    \/ WriteCall
    \/ WriteBegin
    \/ WriteGet
    \/ WriteSet
    \/ WriteInvalidate
    \/ WriteReturn
    \/ WriteCatch

SpecManager == InitManager /\ [][NextManager]_vars

----------------------------------------------------------------------------
(* Vocabulary of the properties.  results and totalCost are the arrays and *)
(* the number the handlers accumulate (lines 238-239), the values the      *)
(* success return of lines 2248-2252 carries.                              *)

\* the tab the request names, "" when tabName is no non-empty string
Tab == IF IsString(req.tabName) /\ req.tabName.s # <<>> THEN req.tabName.s[1] ELSE ""
\* the request passes the checks of lines 192-236
BaseValid == req.hasBody /\ req.authToken # <<>> /\ req.hasData /\ Tab # ""
\* ... and names a tab of the dispatch table
Handled == BaseValid /\ Tab \in OwnTabs
\* the handler ran to its end: no rejection, no throw
HandlerCompleted == ret.kind = "undefined"
\* no catalog store read of the request failed
NoStoreFault == faults = MaxFaults
\* calculateMaterials resolved to { success: false, error }
Rejected == response.kind = "object" /\ ~response.success /\ response.error # ""
             /\ response.results = <<>> /\ response.totalCost = Undef

\* the catalog ids of the entries of a history or of results pushed by the steps srcs
Ids(entries, srcs) ==
    LET chosen == SelectSeq(entries, LAMBDA e : e.src \in srcs)
    IN  [i \in 1..Len(chosen) |-> chosen[i].id]
\* the materials of a category that have a price, in store order
PricedOf(category) == SelectSeq(ListByCategory(category), LAMBDA id : Catalog[id].price # 0)
VisibleOf(ids) == SelectSeq(ids, LAMBDA id : ~Catalog[id].isHidden)

RECURSIVE SumCosts(_)
SumCosts(entries) == IF entries = <<>> THEN 0 ELSE Head(entries).cost + SumCosts(Tail(entries))

\* a material reference whose first segment names a catalog material with price and unit
RefUsable(v) ==
    /\ IsString(v)
    /\ Len(Split0(v.s)) = 1
    /\ Split0(v.s)[1] \in MaterialIds
    /\ Catalog[Split0(v.s)[1]].price # 0
    /\ Catalog[Split0(v.s)[1]].unit # <<>>
RefIds(v) == IF RefUsable(v) THEN <<Split0(v.s)[1]>> ELSE <<>>

\* the required inputs of the tab are invalid
RequiredInputsInvalid ==
    CASE Tab \in GeometryTabs ->
           \/ data.length.t # "number" \/ data.length.n <= 0
           \/ data.width.t # "number" \/ data.width.n <= 0
           \/ data.finishType.t # "string" \/ data.finishType.s = <<>>
      [] Tab = "Osteklenie" ->
           \/ data.windowType.t # "string"
           \/ data.windowType.s \notin {<<v>> : v \in validVariants}
           \/ data.windowQuantity.t # "number" \/ data.windowQuantity.n <= 0
      [] Tab = "Na zaezd" ->
           \/ data.entryListToggle.t # "string"
           \/ data.entryFastenersToggle.t # "string"
           \/ data.entryTilingToggle.t # "string"
      [] Tab = "Dop. parametr" ->
           data.extraMaterials.t # "array" \/ data.extraMaterials.a = <<>>
      [] OTHER -> FALSE

\* the finishType material is not found, has no price or no unit, or has no usable size
FinishUnusable ==
    LET key == Split0(data.finishType.s)
    IN  \/ Len(key) # 1
        \/ key[1] \notin MaterialIds
        \/ Catalog[key[1]].price = 0
        \/ Catalog[key[1]].unit = <<>>
        \/ normalizeDimensions(Catalog[key[1]].dimensions).length <= 0
        \/ normalizeDimensions(Catalog[key[1]].dimensions).width <= 0

----------------------------------------------------------------------------
(* C1..C10.                                                                *)

(* C1: whenever the selected tab handler runs to completion (no validation *)
(* rejection, no primary-material rejection, no fetch failure),            *)
(* calculateMaterials returns {success: true, results, totalCost}: the     *)
(* line items the handler accumulated and the total formatted to 2         *)
(* decimals.  The handlers end without a return statement, so the code     *)
(* reads result.success of undefined and answers from its catch block.     *)
C1_CompletedHandlerReturnsSuccess ==
    (pc = "done" /\ Handled /\ HandlerCompleted) => response = Success(results, totalCost)

(* C2: calculateMaterials always resolves to a result object, {success:    *)
(* true, ...} or {success: false, error}, and never throws or rejects,     *)
(* whatever its collaborators do: a failing catalog lookup, a failing      *)
(* analytics write inside an error path, a request without a body.         *)
C2_AlwaysResolvesToResultObject ==
    pc = "done" => response.kind = "object"

(* C3: for every string tabName that is not one of the 11 tabs of the      *)
(* dispatch table, names of inherited object properties included,          *)
(* calculateMaterials returns {success: false, error: unsupported tab} and *)
(* issues no getMaterial or getMaterials call.                             *)
C3_UnsupportedTabRejected ==
    (pc = "done" /\ BaseValid /\ Tab \notin OwnTabs)
        => (response = Failure("unsupported tab") /\ calls = <<>>)

(* C4: a request whose required inputs are invalid issues no catalog       *)
(* lookup at any time and is answered {success: false, error}.             *)
C4_InvalidInputRejectedBeforeLookup ==
    (Handled /\ RequiredInputsInvalid)
        => /\ calls = <<>>
           /\ results = <<>>
           /\ pc = "done" => Rejected

C4_Witness ==
    /\ pc = "done" /\ Handled /\ Tab \in GeometryTabs
    /\ data.length = Num(0) /\ data.finishType = Key("f1")
    /\ Rejected /\ calls = <<>>

(* C5: in a geometry tab, when the finishType material is not found, has   *)
(* no price or no unit, or has a normalized length or width <= 0, the      *)
(* computation ends with {success: false, error}: no line item, and no     *)
(* lookup besides the getMaterial of the finish material (no hidden or     *)
(* paint listing, no insulation or extra-material lookup).                 *)
C5_PrimaryMaterialFailureIsTerminal ==
    (Handled /\ Tab \in GeometryTabs /\ ~RequiredInputsInvalid /\ FinishUnusable)
        => /\ results = <<>> /\ totalCost = 0
           /\ Len(calls) <= 1
           /\ \A i \in 1..Len(calls) :
                calls[i].op = "getMaterial" /\ calls[i].key = Split0(data.finishType.s)
           /\ ~HandlerCompleted
           /\ pc = "done" => Rejected

C5_Witness ==
    /\ pc = "done" /\ Handled /\ Tab \in GeometryTabs
    /\ data.finishType = Key("f4") /\ data.insulationType = Key("f5")
    /\ data.wallPainting = Yes /\ Truthy(data.extraMaterials)
    /\ Rejected /\ Len(calls) = 1

\* the extraMaterials entries processExtraMaterials resolves to a usable material
ExpectedExtraIds ==
    IF data.extraMaterials.t # "array" THEN <<>>
    ELSE LET valid == SelectSeq(data.extraMaterials.a,
                                LAMBDA x : ~InvalidExtra(x) /\ RefUsable(x.materialKey))
         IN  [i \in 1..Len(valid) |-> Split0(valid[i].materialKey.s)[1]]

\* the paint materials a geometry tab has to cost
ExpectedPaintIds ==
    IF Tab # "Poly" /\ PaintFlag = Yes THEN PricedOf(PaintCategory) ELSE <<>>

(* C6: in a geometry tab with valid inputs and a usable finish material,   *)
(* an insulation material that cannot be fetched or lacks price or unit,   *)
(* and a hidden or paint material without a price, contribute no line item *)
(* and nothing to totalCost; the handler never answers with a rejection    *)
(* once the finish material is costed; and a handler that ran to its end   *)
(* has costed every other hidden and paint material and the extras: the    *)
(* later steps ran.  (What calculateMaterials answers after the handler is *)
(* the subject of C1.)                                                     *)
C6_SecondaryFailureIsSkipped ==
    (Handled /\ Tab \in GeometryTabs /\ ~RequiredInputsInvalid /\ ~FinishUnusable)
        => /\ \A i \in 1..Len(costed) :
                /\ Catalog[costed[i].id].price # 0
                /\ costed[i].src = "insulation" => Catalog[costed[i].id].unit # <<>>
           /\ \A i \in 1..Len(results) : Catalog[results[i].id].price # 0
           /\ totalCost = SumCosts(costed)
           /\ Len(costed) > 0 => ret.kind # "object"
           /\ (pc = "done" /\ ~HandlerCompleted) => ~NoStoreFault
           /\ HandlerCompleted =>
                /\ Ids(costed, {"rail"}) = PricedOf(<<Tab, ":", "Skrytye">>)
                /\ Ids(costed, {"paint"}) = ExpectedPaintIds
                /\ Ids(costed, {"insulation"}) \in {<<>>, RefIds(data.insulationType)}
                /\ NoStoreFault =>
                     /\ Ids(costed, {"insulation"}) = RefIds(data.insulationType)
                     /\ Ids(costed, {"extra"}) = ExpectedExtraIds

C6_Witness ==
    /\ pc = "done" /\ HandlerCompleted /\ NoStoreFault
    /\ Tab = "Glavnaya stena"
    /\ data.finishType = Key("f1") /\ data.insulationType = Key("f4")
    /\ data.wallPainting = Yes /\ Truthy(data.extraMaterials)
    /\ Ids(costed, {"rail"}) = <<"r1", "r3">>
    /\ Ids(costed, {"paint"}) = <<"p1", "p3">>
    /\ Ids(costed, {"insulation"}) = <<>>
    /\ Ids(costed, {"extra"}) = <<"f2", "f1">>

(* C7: an extraMaterials entry whose material has catalog isHidden = true  *)
(* is added to totalCost and is in the list processExtraMaterials returns, *)
(* but is not in the tab's results list.  The merge of lines 490 and 2207  *)
(* pushes exactly the catalog-hidden entries into results.                 *)
C7_HiddenExtraNotInResults ==
    /\ \A i \in 1..Len(results) :
         results[i].src \in {"extra", "extraMerge"} => ~Catalog[results[i].id].isHidden
    /\ HandlerCompleted =>
         \A i \in 1..Len(extraResults) :
            \E j \in 1..Len(costed) :
               costed[j].src = "extra" /\ costed[j].id = extraResults[i].id

RECURSIVE Flatten(_)
Flatten(seqs) == IF seqs = <<>> THEN <<>> ELSE Head(seqs) \o Flatten(Tail(seqs))

\* what a (type, quantity) slot, a toggle and a glazing option have to cost
SlotIds(item) ==
    IF Truthy(item.type) /\ ~NotPositiveNumber(item.quantity) THEN RefIds(item.type) ELSE <<>>
ToggleIds(entry) == IF entry.toggle = Yes THEN PricedOf(entry.category) ELSE <<>>
\* the window-type option resolves to the listed material of that name, with price and unit
WindowIds ==
    LET named == SelectSeq(ListByCategory(WindowCategory),
                           LAMBDA id : Catalog[id].name = data.windowType.s)
    IN  IF named # <<>> /\ Catalog[named[1]].price # 0 /\ Catalog[named[1]].unit # <<>>
        THEN <<named[1]>> ELSE <<>>
OptionIds(entry) ==
    IF Truthy(entry.value) /\ entry.value # No
    THEN IF entry.category = WindowCategory THEN WindowIds ELSE RefIds(entry.value)
    ELSE <<>>

FlagFiltered == {"item", "option", "category"}
FlagFilteredTabs == {"Na zaezd", "Osteklenie", "Elektrika", "Mebel"}

\* the materials the handler resolves with a price (and, in a slot, a unit), in order
ExpectedCostedIds ==
    CASE Tab = "Na zaezd" ->
           Flatten([i \in 1..3 |-> ToggleIds(categoriesToCheck[i])])
      [] Tab = "Osteklenie" ->
           Flatten([i \in 1..8 |-> OptionIds(glazingCategories[i])])
      [] Tab = "Elektrika" ->
           Flatten([i \in 1..4 |-> SlotIds(electricItems[i])])
      [] Tab = "Mebel" ->
           Flatten([i \in 1..3 |-> SlotIds(furnitureItems[i])])
           \o Flatten([i \in 1..2 |-> ToggleIds(additionalItems[i])])
      [] OTHER -> <<>>

(* C8: in 'Na zaezd', 'Osteklenie' (option slots), 'Elektrika' and 'Mebel' *)
(* (material items and toggle categories), at the end of the handler every *)
(* material that was resolved with a price (in an option or item slot:     *)
(* with a price and a unit, the check those slots make) has added its cost *)
(* to totalCost; it has added exactly one line item to results when its    *)
(* catalog isHidden is false or absent, and none when isHidden is true.    *)
C8_CatalogHiddenCostedNotListed ==
    (Handled /\ Tab \in FlagFilteredTabs)
        => /\ \A i \in 1..Len(results) :
                results[i].src \in FlagFiltered => ~Catalog[results[i].id].isHidden
           /\ Ids(results, FlagFiltered) = VisibleOf(Ids(costed, FlagFiltered))
           /\ totalCost = SumCosts(costed)
           /\ (HandlerCompleted /\ NoStoreFault) =>
                /\ Ids(costed, FlagFiltered) = ExpectedCostedIds
                /\ Ids(results, FlagFiltered) = VisibleOf(ExpectedCostedIds)

C8_Witness ==
    /\ pc = "done" /\ HandlerCompleted /\ NoStoreFault
    /\ Tab = "Elektrika"
    /\ data.cableType = Key("f1") /\ data.cableQuantity = Num(3000)
    /\ data.spotType = Key("f2") /\ data.spotQuantity = Num(2500)
    /\ Ids(costed, FlagFiltered) = <<"f1", "f2">>
    /\ Ids(results, FlagFiltered) = <<"f1">>
    /\ totalCost = 3000 * 100 + 2500 * 50

(* C9: in every tab a line item whose material has catalog isHidden = true *)
(* and that is no structurally hidden item (the finish, insulation and     *)
(* paint materials of the geometry tabs and the paint materials of 'Mebel' *)
(* included) is counted in totalCost and is not in results.  Extra         *)
(* materials are the subject of C7 and are left out here.  Lines 342-354,  *)
(* 431-439, 470-476 and 2121-2127 push without reading isHidden.           *)
C9_CatalogHiddenNeverListed ==
    /\ totalCost = SumCosts(costed)
    /\ \A i \in 1..Len(results) :
         results[i].src \in {"finish", "insulation", "paint"} \cup FlagFiltered
            => ~Catalog[results[i].id].isHidden

\* the hidden category of the request's window variant
WindowHiddenCategory == WindowCategory \o <<":">> \o data.windowType.s \o <<":", "Skrytye">>
StructurallyHidden == {"rail", "windowHidden"}

(* C10: at the end of a geometry handler every priced material listed      *)
(* under "{tab}:Skrytye", and at the end of the 'Osteklenie' handler, once *)
(* the window-type option is resolved (the step of lines 1915-1945 belongs *)
(* to it), every priced material listed under                              *)
(* "Osteklenie:Okno:{variant}:Skrytye", has exactly one line item in       *)
(* results, with hidden = true, and its cost in totalCost, whatever its    *)
(* own catalog isHidden flag is.                                           *)
C10_StructurallyHiddenListed ==
    (Handled /\ HandlerCompleted)
        => /\ \A i \in 1..Len(results) :
                results[i].src \in StructurallyHidden => results[i].hidden
           /\ Ids(results, StructurallyHidden) = Ids(costed, StructurallyHidden)
           /\ totalCost = SumCosts(costed)
           /\ Tab \in GeometryTabs =>
                Ids(results, StructurallyHidden) = PricedOf(<<Tab, ":", "Skrytye">>)
           /\ (Tab = "Osteklenie" /\ WindowIds # <<>>) =>
                /\ Ids(results, StructurallyHidden) \in {<<>>, PricedOf(WindowHiddenCategory)}
                /\ NoStoreFault =>
                     Ids(results, StructurallyHidden) = PricedOf(WindowHiddenCategory)

C10_Witness ==
    /\ pc = "done" /\ HandlerCompleted
    /\ Tab = "Glavnaya stena"
    /\ Catalog["r1"].isHidden /\ ~Catalog["r3"].isHidden
    /\ Ids(results, StructurallyHidden) = <<"r1", "r3">>
    /\ \A i \in 1..Len(results) : results[i].src = "rail" => results[i].hidden

----------------------------------------------------------------------------
(* C11..C20.                                                               *)

\* an entry the extra-materials overlay has to drop: materialKey missing, not a
\* string or blank, quantity not a number, NaN or <= 0
DroppedEntry(x) ==
    \/ x.materialKey.t = "undefined"
    \/ x.materialKey.t # "string"
    \/ \A i \in 1..Len(x.materialKey.s) : x.materialKey.s[i] = " "
    \/ x.quantity.t \notin {"number", "NaN"}
    \/ x.quantity.t = "NaN"
    \/ x.quantity.n <= 0
KeptEntries == SelectSeq(data.extraMaterials.a, LAMBDA x : ~DroppedEntry(x))
UsableKeptEntries == SelectSeq(KeptEntries, LAMBDA x : RefUsable(x.materialKey))
\* the getMaterial calls among the calls made
LookupKeys(cs) ==
    LET lookups == SelectSeq(cs, LAMBDA c : c.op = "getMaterial")
    IN  [i \in 1..Len(lookups) |-> lookups[i].key]

(* C11: processExtraMaterials drops every entry whose materialKey is       *)
(* missing, not a string or blank, or whose quantity is not a number, is   *)
(* NaN or is <= 0: the only lookups of a 'Dop. parametr' run are those of  *)
(* the other entries, in order; a dropped entry adds nothing to totalCost  *)
(* or to either list; the other entries are processed; and the handler     *)
(* does not reject.                                                        *)
C11_InvalidExtraDropped ==
    (Handled /\ data.extraMaterials.t = "array" /\ data.extraMaterials.a # <<>>)
        => /\ Len(Ids(costed, {"extra"})) <= Len(KeptEntries)
           /\ Tab = "Dop. parametr" =>
                /\ ret.kind # "object"
                /\ pc = "done" => HandlerCompleted
           /\ HandlerCompleted =>
                /\ Tab = "Dop. parametr" =>
                     /\ calls = [i \in 1..Len(KeptEntries) |->
                                   [op |-> "getMaterial",
                                    key |-> Split0(KeptEntries[i].materialKey.s),
                                    page |-> 0]]
                     /\ totalCost = SumCosts(costed)
                /\ NoStoreFault =>
                     /\ Ids(costed, {"extra"})
                          = [i \in 1..Len(UsableKeptEntries) |->
                               Split0(UsableKeptEntries[i].materialKey.s)[1]]
                     /\ Ids(extraResults, {"extra"}) = Ids(costed, {"extra"})
                     /\ \A i \in 1..Len(UsableKeptEntries) :
                          costed[Len(costed) - Len(UsableKeptEntries) + i].cost
                            = UsableKeptEntries[i].quantity.n
                              * Catalog[Split0(UsableKeptEntries[i].materialKey.s)[1]].price

C11_Witness ==
    /\ pc = "done" /\ HandlerCompleted /\ NoStoreFault
    /\ Tab = "Dop. parametr"
    /\ data.extraMaterials = Arr(<<Extra(Key("f1"), Num(0)), Extra(Key("f1"), Num(2000))>>)
    /\ Len(calls) = 1
    /\ Ids(results, {"extra"}) = <<"f1">>
    /\ totalCost = 2000 * 100

\* the number of materials of the category being fetched
FetchTotal == Len(ListByCategory(fetch.category))
\* the getMaterials request of a page
PageRequest(page) == [op |-> "getMaterials", key |-> fetch.category, page |-> page]

(* C12: for a category of n materials served with stable pagination,       *)
(* fetchAllMaterials requests the pages 0, 1, 2, ... one after another,    *)
(* stops at the first page whose length is not pageSize, and returns all n *)
(* materials, each once, in page order, after floor(n / pageSize) + 1      *)
(* requests.                                                               *)
C12_FetchAllPagesInOrder ==
    fetch.status \in {"running", "returned"}
        => /\ fetch.made = [i \in 1..Len(fetch.made) |-> PageRequest(i - 1)]
           /\ fetch.page = Len(fetch.made)
           /\ \A i \in 1..(Len(fetch.made) - 1) :
                Len(PageOf(fetch.category, i - 1, fetch.itemsPerPage)) = fetch.itemsPerPage
           /\ fetch.allMaterials
                = SubSeq(ListByCategory(fetch.category), 1, Len(fetch.allMaterials))
           /\ fetch.status = "returned" =>
                /\ Len(PageOf(fetch.category, Len(fetch.made) - 1, fetch.itemsPerPage))
                     # fetch.itemsPerPage
                /\ fetch.allMaterials = ListByCategory(fetch.category)
                /\ Len(fetch.made) = FetchTotal \div fetch.itemsPerPage + 1
                /\ fetchAllMaterials(fetch.category, fetch.itemsPerPage, 0 - 1)
                     = [ok |-> TRUE, materials |-> fetch.allMaterials, calls |-> fetch.made]

\* exactly pageSize materials on page 0 and none on page 1: two requests
C12_Witness ==
    /\ fetch.status = "returned"
    /\ FetchTotal = 3 /\ fetch.itemsPerPage = 3
    /\ Len(fetch.made) = 2
    /\ Len(fetch.allMaterials) = 3

(* C13: when the getMaterials call of a page of a fetch-all reports        *)
(* failure, no further page is requested and fetchAllMaterials throws that *)
(* error; calculateMaterials then returns {success: false, error} with no  *)
(* results and no totalCost, also when the handler had accumulated line    *)
(* items before the fetch.                                                 *)
C13_FetchFailureDiscardsPartialBill ==
    /\ \A category \in FetchCategories, itemsPerPage \in 1..MaxPageSize :
         \A failPage \in 0..(Len(ListByCategory(category)) \div itemsPerPage) :
            LET fetched == fetchAllMaterials(category, itemsPerPage, failPage)
            IN  /\ ~fetched.ok
                /\ fetched.materials = <<>>
                /\ Len(fetched.calls) = failPage + 1
                /\ \A i \in 1..(failPage + 1) :
                     fetched.calls[i]
                       = [op |-> "getMaterials", key |-> category, page |-> i - 1]
    /\ err = "getMaterials failed" =>
         /\ pc \in {"catch", "done"}
         /\ calls # <<>> /\ calls[Len(calls)].op = "getMaterials"
         /\ ~HandlerCompleted
         /\ pc = "done" =>
              /\ response.kind = "object" /\ ~response.success
              /\ response.error = "getMaterials failed"
              /\ response.results = <<>>
              /\ response.totalCost = Undef

C13_Witness ==
    /\ pc = "done" /\ err = "getMaterials failed"
    /\ Tab = "Glavnaya stena" /\ data.wallPainting = Yes
    /\ Ids(results, {"finish"}) = <<"f1">>
    /\ Ids(results, {"rail"}) = <<"r1", "r3">>
    /\ calls[Len(calls)].key = <<"Glavnaya stena", ":", "Pokraska sten">>
    /\ totalCost > 0
    /\ response.results = <<>> /\ ~response.success

(* C14: in every geometry tab the quantity of the visible finish material   *)
(* is the least integer >= 11 * length * width / (10 * materialLength *     *)
(* materialWidth), and its cost is that quantity times the price.  Line 344 *)
(* computes (area / materialArea) * 1.1 in binary floating point: for a     *)
(* 300 x 250 room and a 100 x 55 material the exact value 15 comes out as   *)
(* 15.000000000000002 and Math.ceil gives 16.                               *)
C14_FinishQuantityIsLeastInteger ==
    \A i \in 1..Len(results) :
       results[i].src = "finish" =>
          LET material == Catalog[results[i].id]
              quantity == CeilDiv(WasteNum * data.length.n * data.width.n,
                                  WasteDen * material.dimensions.length
                                           * material.dimensions.width)
          IN  /\ results[i].quantity = Num(quantity * 1000)
              /\ results[i].cost = ToFixed2(quantity * 1000 * material.price)

(* C15: for each hidden material of a geometry tab horizontalCount is       *)
(* ceil(roomLength in metres / 0.5), verticalCount is ceil(roomHeight in    *)
(* metres / railLength in metres) and the quantity is horizontalCount *     *)
(* verticalCount * 1.05.  Lines 389-390 divide the millimetre inputs, which *)
(* are never converted, by the step and the rail length in metres.          *)
C15_RailCountsInMetres ==
    \A i \in 1..Len(results) :
       results[i].src = "rail" =>
          LET hiddenLength == normalizeDimensions(Catalog[results[i].id].dimensions).length
              railLengthMm == IF hiddenLength # 0 THEN hiddenLength ELSE RAIL_DEFAULT_LENGTH
              horizontal == CeilDiv(data.length.n * RailStepInv, 1000)
              vertical == CeilDiv(data.width.n, railLengthMm)
          IN  results[i].quantity = ToFixed2(horizontal * vertical * RailWasteMilli)

\* rooms (length, height in mm) of 7.5 to 18 square metres
PaintRooms == {<<3000, 2500>>, <<4000, 2500>>, <<4000, 3000>>, <<5000, 2001>>, <<6000, 3000>>}
PaintOfRooms == {<<room, paintQuantity(room[1], room[2])>> : room \in PaintRooms}
PaintNames == {"Pokraska sten", "Pokraska potolka"}
\* the fetch-all requests of the run for a paint category of a geometry tab
PaintRequests ==
    SelectSeq(calls, LAMBDA c : c.op = "getMaterials" /\ Len(c.key) = 3 /\ c.key[3] \in PaintNames)

(* C16: in a wall or ceiling tab whose painting flag is "yes", a handler    *)
(* that ran to its end has given every priced material of the tab's paint   *)
(* category one line item with quantity ceil(room area in m2 / 10) and cost *)
(* quantity * price; with any other flag value the paint category is never  *)
(* requested; the 'Poly' handler never requests a paint category.           *)
C16_PaintByCoverage ==
    /\ \A room \in PaintRooms :
         Computed(PaintOfRooms, room)
           = CeilDiv(room[1] * room[2], SquareMmPerSquareM * PAINT_COVERAGE)
    /\ Handled /\ Tab \in GeometryTabs =>
         /\ \A i \in 1..Len(PaintRequests) :
              /\ Tab # "Poly" /\ PaintFlag = Yes
              /\ PaintRequests[i].key = PaintCategory
         /\ HandlerCompleted /\ Tab # "Poly" /\ PaintFlag = Yes =>
              /\ Ids(results, {"paint"}) = PricedOf(PaintCategory)
              /\ \A i \in 1..Len(results) :
                   results[i].src = "paint" =>
                      LET quantity == CeilDiv(data.length.n * data.width.n,
                                              SquareMmPerSquareM * PAINT_COVERAGE)
                      IN  /\ results[i].quantity = Num(quantity * 1000)
                          /\ results[i].cost
                               = ToFixed2(quantity * 1000 * Catalog[results[i].id].price)

\* a wall with the flag set: the unpriced paint p2 is left out
C16_Witness ==
    /\ HandlerCompleted /\ Tab = "Glavnaya stena" /\ data.wallPainting = Yes
    /\ Len(PaintRequests) = 1
    /\ Ids(results, {"paint"}) = <<"p1", "p3">>

\* the area of an insulation material in square mm, 1 m2 when it has no dimensions
ExactInsulationArea(id) ==
    LET dimensions == normalizeDimensions(Catalog[id].dimensions)
    IN  IF dimensions.length * dimensions.width # 0 THEN dimensions.length * dimensions.width
        ELSE SquareMmPerSquareM

(* C17: when insulationType resolves to a material with price and unit, a  *)
(* handler that ran to its end lists it with quantity ceil(room area /      *)
(* material area * 1.10), the material area being its own length * width    *)
(* and 1 m2 when its dimensions are missing or zero; the insulation step    *)
(* never rejects the calculation.  Lines 428-430 are the expression of line *)
(* 344 again (C14): for a 300 x 250 room and a 100 x 55 insulation material *)
(* the exact value 15 is computed as 16.                                    *)
C17_InsulationQuantity ==
    (Handled /\ Tab \in GeometryTabs /\ ~RequiredInputsInvalid /\ ~FinishUnusable) =>
       /\ pc \in {"geoInsulation", "geoPaint"} => ret.kind = "none"
       /\ HandlerCompleted /\ NoStoreFault /\ RefUsable(data.insulationType) =>
            Ids(results, {"insulation"}) = RefIds(data.insulationType)
       /\ \A i \in 1..Len(results) :
            results[i].src = "insulation" =>
               LET quantity == CeilDiv(WasteNum * data.length.n * data.width.n,
                                       WasteDen * ExactInsulationArea(results[i].id))
               IN  /\ results[i].quantity = Num(quantity * 1000)
                   /\ results[i].cost
                        = ToFixed2(quantity * 1000 * Catalog[results[i].id].price)

\* the (id, quantity, cost) of the entries of a history or of results pushed by step src
Bill(entries, src) ==
    LET chosen == SelectSeq(entries, LAMBDA e : e.src = src)
    IN  [i \in 1..Len(chosen) |-> <<chosen[i].id, chosen[i].cost>>]
Listed(src) ==
    LET chosen == SelectSeq(results, LAMBDA e : e.src = src)
    IN  [i \in 1..Len(chosen) |-> <<chosen[i].id, chosen[i].quantity, chosen[i].cost>>]

\* the material of 'Osteklenie:Okno' the window-type option names
WindowNamed ==
    SelectSeq(ListByCategory(WindowCategory), LAMBDA id : Catalog[id].name = data.windowType.s)
OptionQuantity(entry) ==
    IF entry.category = WindowCategory THEN data.windowQuantity.n ELSE 1000
OptionBill(entry) ==
    [i \in 1..Len(OptionIds(entry)) |->
        <<OptionIds(entry)[i], OptionQuantity(entry) * Catalog[OptionIds(entry)[i]].price>>]
OptionListed(entry) ==
    LET ids == VisibleOf(OptionIds(entry))
    IN  [i \in 1..Len(ids) |->
            <<ids[i], ToFixed2(OptionQuantity(entry)),
              ToFixed2(OptionQuantity(entry) * Catalog[ids[i]].price)>>]
WindowHiddenIds == IF WindowIds # <<>> THEN PricedOf(WindowHiddenCategory) ELSE <<>>
\* the catalog reads of one option when no read fails
OptionCalls(entry) ==
    IF ~(Truthy(entry.value) /\ entry.value # No) THEN <<>>
    ELSE IF entry.category # WindowCategory
         THEN <<[op |-> "getMaterial", key |-> Split0(entry.value.s), page |-> 0]>>
    ELSE <<[op |-> "getMaterials", key |-> WindowCategory, page |-> 0]>>
         \o (IF WindowNamed = <<>> THEN <<>>
             ELSE <<[op |-> "getMaterial", key |-> <<WindowNamed[1]>>, page |-> 0]>>)
         \o (IF WindowIds = <<>> THEN <<>>
             ELSE <<[op |-> "getMaterials", key |-> WindowHiddenCategory, page |-> 0]>>)

(* C18: in 'Osteklenie', when no catalog read fails, at the end of the      *)
(* option loop every option whose value is truthy and not "no" and resolves *)
(* to a material with price and unit is costed at price * windowQuantity    *)
(* for the window-type option and at price * 1 for every other option; an   *)
(* option whose value is "no" or falsy causes no catalog read and no        *)
(* failure; and once the window-type option is resolved, every priced       *)
(* material under "Osteklenie:Okno:{windowType}:Skrytye" is costed and      *)
(* listed at windowQuantity units.                                          *)
C18_GlazingOptions ==
    (Handled /\ Tab = "Osteklenie" /\ NoStoreFault /\ (pc = "extras" \/ HandlerCompleted)) =>
       /\ Bill(costed, "option") = Flatten([i \in 1..8 |-> OptionBill(glazingCategories[i])])
       /\ Listed("option") = Flatten([i \in 1..8 |-> OptionListed(glazingCategories[i])])
       /\ Bill(costed, "windowHidden")
            = [i \in 1..Len(WindowHiddenIds) |->
                 <<WindowHiddenIds[i], data.windowQuantity.n * Catalog[WindowHiddenIds[i]].price>>]
       /\ Listed("windowHidden")
            = [i \in 1..Len(WindowHiddenIds) |->
                 <<WindowHiddenIds[i], ToFixed2(data.windowQuantity.n),
                   ToFixed2(data.windowQuantity.n * Catalog[WindowHiddenIds[i]].price)>>]
       /\ pc = "extras" =>
            /\ calls = Flatten([i \in 1..8 |-> OptionCalls(glazingCategories[i])])
            /\ ret.kind = "none" /\ err = ""

\* two windows "Balkon 3m.", a glazing type, the frame option "no", the rest unset
C18_Witness ==
    /\ pc = "extras" /\ Tab = "Osteklenie" /\ NoStoreFault
    /\ data.windowType = Str(<<"Balkon 3m.">>) /\ data.windowQuantity = Num(2000)
    /\ data.glazingType = Key("f1") /\ data.frameType = No
    /\ Bill(costed, "option") = <<<<"f1", 1000 * 100>>, <<"w1", 2000 * 1000>>>>
    /\ Bill(costed, "windowHidden") = <<<<"h1", 2000 * 6>>, <<"h3", 2000 * 4>>>>
    /\ Len(calls) = 4

\* the quantity the request declares for each (type, quantity) slot; the request
\* has no quantity field for the furniture body
DeclaredSlots ==
    CASE Tab = "Elektrika" -> electricItems
      [] Tab = "Mebel" ->
           <<[type |-> data.furnitureMaterial, quantity |-> Undef],
             [type |-> data.shelfTopMaterial, quantity |-> data.shelfTopQuantity],
             [type |-> data.shelfBottomMaterial, quantity |-> data.shelfBottomQuantity]>>
      [] OTHER -> <<>>
SlotBill(slot) ==
    [i \in 1..Len(SlotIds(slot)) |->
        <<SlotIds(slot)[i], slot.quantity.n * Catalog[SlotIds(slot)[i]].price>>]
SlotListed(slot) ==
    LET ids == VisibleOf(SlotIds(slot))
    IN  [i \in 1..Len(ids) |->
            <<ids[i], ToFixed2(slot.quantity.n),
              ToFixed2(slot.quantity.n * Catalog[ids[i]].price)>>]
\* every material reference of the slots is a string or absent
SlotTypesAreStrings ==
    \A i \in 1..Len(DeclaredSlots) :
       Truthy(DeclaredSlots[i].type) => IsString(DeclaredSlots[i].type)

(* C19: in 'Elektrika' (cable, switch, socket, spot) and 'Mebel' (body, top *)
(* shelf, bottom shelf), when no catalog read fails, every slot with a      *)
(* material reference and a positive numeric quantity declared in the       *)
(* request is costed at that quantity * price, and every other slot is      *)
(* skipped without failing the calculation.  The body slot of 'Mebel' is    *)
(* declared with the literal quantity 1 (line 2049): it is costed at        *)
(* 1 * price though the request declares no quantity for it.                *)
C19_SlotsCostedAtDeclaredQuantity ==
    (Handled /\ Tab \in {"Elektrika", "Mebel"} /\ NoStoreFault /\ SlotTypesAreStrings) =>
       /\ ~HandlerCompleted => err = "" /\ ret.kind = "none"
       /\ HandlerCompleted =>
            /\ Bill(costed, "item")
                 = Flatten([i \in 1..Len(DeclaredSlots) |-> SlotBill(DeclaredSlots[i])])
            /\ Listed("item")
                 = Flatten([i \in 1..Len(DeclaredSlots) |-> SlotListed(DeclaredSlots[i])])

\* the catalog quantity of a material, 1 when it is not set (0)
CatalogQuantity(id) == IF Catalog[id].quantity # 0 THEN Catalog[id].quantity ELSE 1000
ToggleBill(entry) ==
    [i \in 1..Len(ToggleIds(entry)) |->
        <<ToggleIds(entry)[i],
          CatalogQuantity(ToggleIds(entry)[i]) * Catalog[ToggleIds(entry)[i]].price>>]
ToggleListed(entry) ==
    LET ids == VisibleOf(ToggleIds(entry))
    IN  [i \in 1..Len(ids) |->
            <<ids[i], ToFixed2(CatalogQuantity(ids[i])),
              ToFixed2(CatalogQuantity(ids[i]) * Catalog[ids[i]].price)>>]
ToggleCalls(entry) ==
    IF entry.toggle = Yes THEN <<[op |-> "getMaterials", key |-> entry.category, page |-> 0]>>
    ELSE <<>>

----------------------------------------------------------------------------
(* C21..C30.                                                               *)

RECURSIVE IsSubsequence(_, _)
IsSubsequence(s, t) ==
    IF s = <<>> THEN TRUE
    ELSE IF t = <<>> THEN FALSE
    ELSE IF Head(s) = Head(t) THEN IsSubsequence(Tail(s), Tail(t))
    ELSE IsSubsequence(s, Tail(t))

\* the line items of a list as (material, pushing step) pairs
Tagged(ids, src) == [i \in 1..Len(ids) |-> <<ids[i], src>>]
Listing(rs) == [i \in 1..Len(rs) |-> <<rs[i].id, rs[i].src>>]
CatalogHiddenOf(ids) == SelectSeq(ids, LAMBDA id : Catalog[id].isHidden)

\* the extras group: the entries in request order, as the overlay and the merge list them
DeclaredExtras ==
    Tagged(VisibleOf(ExpectedExtraIds), "extra")
    \o Tagged(CatalogHiddenOf(ExpectedExtraIds), "extraMerge")
\* a glazing option in its slot; the window option is followed by its hidden materials
DeclaredOption(entry) ==
    Tagged(VisibleOf(OptionIds(entry)), "option")
    \o (IF entry.category = WindowCategory /\ OptionIds(entry) # <<>>
        THEN Tagged(PricedOf(WindowHiddenCategory), "windowHidden") ELSE <<>>)
\* the paint materials of 'Mebel'
FurniturePaintIds ==
    IF data.furniturePainting = Yes THEN PricedOf(Cat("Mebel", "Pokraska mebeli")) ELSE <<>>

\* the line items of the request in the declared order of the tab's options
DeclaredOrder ==
    (CASE Tab \in GeometryTabs ->
            Tagged(RefIds(data.finishType), "finish")
            \o Tagged(PricedOf(<<Tab, ":", "Skrytye">>), "rail")
            \o Tagged(RefIds(data.insulationType), "insulation")
            \o Tagged(ExpectedPaintIds, "paint")
       [] Tab = "Na zaezd" ->
            Tagged(VisibleOf(ExpectedCostedIds), "category")
       [] Tab = "Osteklenie" ->
            Flatten([i \in 1..8 |-> DeclaredOption(glazingCategories[i])])
       [] Tab = "Elektrika" ->
            Tagged(VisibleOf(ExpectedCostedIds), "item")
       [] Tab = "Mebel" ->
            Tagged(VisibleOf(Flatten([i \in 1..3 |-> SlotIds(furnitureItems[i])])), "item")
            \o Tagged(FurniturePaintIds, "paint")
            \o Tagged(VisibleOf(Flatten([i \in 1..2 |-> ToggleIds(additionalItems[i])])),
                      "category")
       [] OTHER -> <<>>)
    \o DeclaredExtras

(* C21: in every tab the order of the line items in results is the declared *)
(* order of the tab's options ('Osteklenie': the eight option slots, the    *)
(* window followed by its hidden materials; 'Elektrika': cable, switch,     *)
(* socket, spot; geometry tabs: finish, hidden, insulation, paint, extras), *)
(* catalog-listed materials in page order.  At every moment results is a    *)
(* subsequence of that list, whichever lookups failed or are still to come, *)
(* and a handler that ended with every lookup answered has listed all of    *)
(* it: each lookup is awaited before the next is issued.                    *)
C21_ResultsInDeclaredOrder ==
    Handled =>
       /\ IsSubsequence(Listing(results), DeclaredOrder)
       /\ (HandlerCompleted /\ NoStoreFault) => Listing(results) = DeclaredOrder

C21_Witness ==
    /\ HandlerCompleted /\ NoStoreFault /\ Tab = "Glavnaya stena"
    /\ Listing(results) = <<<<"f1", "finish">>, <<"r1", "rail">>, <<"r3", "rail">>,
                            <<"f5", "insulation">>, <<"p1", "paint">>, <<"p3", "paint">>,
                            <<"f1", "extra">>, <<"f2", "extraMerge">>>>

(* C22: calling calculateMaterials twice in sequence with the same tabName  *)
(* and data against an unchanged catalog yields identical result objects,   *)
(* and the handler of the second call accumulates the line items and the    *)
(* total of the first: the first call leaves nothing behind.                *)
C22_SecondCallIdentical ==
    \A i \in 1..Len(earlier) :
       pc = "done" =>
          /\ earlier[i].req = req
          /\ response = earlier[i].response
          /\ LineItems(results) = earlier[i].results
          /\ totalCost = earlier[i].totalCost

C22_Witness ==
    /\ Len(earlier) = 1 /\ pc = "done"
    /\ HandlerCompleted /\ Tab = "Mebel"
    /\ Len(results) = 3 /\ totalCost > 0
    /\ response = earlier[1].response

\* the call of the pair that made request who, when it is the running one or the parked one
PairCall(who) == IF parked.who = who THEN parked.call ELSE ThisCall
IsPrefix(s, t) == Len(s) <= Len(t) /\ s = SubSeq(t, 1, Len(s))

(* C23: two calculateMaterials requests whose steps interleave at the       *)
(* awaits each return exactly what they return when run alone on the same   *)
(* catalog, and at every moment the line items a call has accumulated are   *)
(* the first line items of its run alone and its total is no more than the  *)
(* total of its run alone: nothing of the other request gets in.            *)
C23_InterleavedCallsIsolated ==
    Len(earlier) = 2 =>
       \A who \in {1, 2} :
          /\ PairCall(who).req = earlier[who].req
          /\ IsPrefix(PairCall(who).results, earlier[who].results)
          /\ PairCall(who).totalCost <= earlier[who].totalCost
          /\ PairCall(who).pc = "done" =>
               /\ PairCall(who).response = earlier[who].response
               /\ PairCall(who).results = earlier[who].results
               /\ PairCall(who).totalCost = earlier[who].totalCost

\* both calls have returned after each was suspended with line items of its own
C23_Witness ==
    /\ Len(earlier) = 2
    /\ pc = "done" /\ parked.call.pc = "done"
    /\ Tab = "Elektrika" /\ parked.call.req.tabName = Str(<<"Mebel">>)
    /\ Len(results) = 1 /\ Len(parked.call.results) > 1
    /\ totalCost > 0 /\ parked.call.totalCost > 0
    /\ totalCost # parked.call.totalCost

\* the material has a category string without any colon
HasCategoryWithoutColon(d) ==
    /\ d.categories.t = "array"
    /\ \E i \in 1..Len(d.categories.a) :
          /\ d.categories.a[i].t = "string"
          /\ \A k \in 1..Len(d.categories.a[i].s) : d.categories.a[i].s[k] # ":"
\* the fields other than categories as the data model wants them: a name of 1 to 100
\* characters that is not blank, a price from 0 to 1,000,000, a quantity >= 0, a unit of
\* 1 to 20 characters that is not blank, no dimensions or a positive length and width and
\* a height >= 0 if any, each at most 100,000, and no colour or one of at most 50 characters
OtherFieldsValid(d) ==
    /\ d.isObject
    /\ d.name.t = "string" /\ StrLen(d.name.s) \in 1..100
    /\ \E i \in 1..Len(d.name.s) : d.name.s[i] # " "
    /\ d.price.t = "number" /\ d.price.n >= 0 /\ d.price.n <= 1000000
    /\ d.quantity.t = "number" /\ d.quantity.n >= 0
    /\ d.unit.t = "string" /\ StrLen(d.unit.s) \in 1..20
    /\ \E i \in 1..Len(d.unit.s) : d.unit.s[i] # " "
    /\ \/ d.dimensions \in {Absent, Null}
       \/ /\ d.dimensions.t = "object"
          /\ \A i \in 1..2 : /\ d.dimensions.a[i].t = "number"
                             /\ d.dimensions.a[i].n > 0
                             /\ d.dimensions.a[i].n <= 100000
          /\ \/ d.dimensions.a[3] = Undef
             \/ /\ d.dimensions.a[3].t = "number"
                /\ d.dimensions.a[3].n >= 0
                /\ d.dimensions.a[3].n <= 100000
    /\ \/ d.color = Absent
       \/ d.color.t = "string" /\ StrLen(d.color.s) <= 50

(* C26: validateMaterialData rejects every material that has a category     *)
(* string containing no colon, and accepts the category                     *)
(* "Glavnaya stena:Skrytye" when the material's other fields are valid.     *)
C26_CategoryNeedsColon ==
    manager.status = "validated" =>
       /\ HasCategoryWithoutColon(manager.data) => ~manager.validation.success
       /\ (/\ manager.data.categories = Arr(<<Str(<<"Glavnaya stena", ":", "Skrytye">>)>>)
           /\ OtherFieldsValid(manager.data))
            => manager.validation.success

\* a material whose only flaw is its category without a colon
C26_Witness ==
    /\ manager.status = "validated"
    /\ OtherFieldsValid(manager.data)
    /\ manager.data.categories = Arr(<<Str(<<"Glavnaya stena", " ", "Skrytye">>)>>)
    /\ manager.validation = Invalid("Invalid category format")

(* C24: every addMaterial, editMaterial and deleteMaterial call clears the  *)
(* category cache (data = null, lastUpdated = 0) before it returns,         *)
(* whatever its outcome.  The code clears the cache only on the path of a   *)
(* write the store applied: a call that ends with a validation failure, a   *)
(* missing material or an error returns without touching the cache.         *)
C24_EveryWriteCallClearsCache ==
    (manager.status = "running" /\ manager.write.pc = "returned") => manager.write.cleared

(* C28: once a successful addMaterial, editMaterial or deleteMaterial call  *)
(* has returned, no getCategories call that starts afterwards is served a   *)
(* list computed from a store snapshot taken before that write.  A          *)
(* getCategories call that read the store before the write may fill the     *)
(* cache after the write has cleared it.                                    *)
C28_NoStaleListAfterWrite ==
    manager.status = "running" =>
       \A i \in 1..Len(manager.reads) :
          (manager.reads[i].pc = "returned" /\ manager.reads[i].success)
             => manager.reads[i].servedVersion >= manager.reads[i].floor

(* C25: in a geometry tab a structurally-hidden material or a paint        *)
(* material that has no unit is skipped like one that has no price: it     *)
(* adds no line item to results and nothing to totalCost.  The two loops   *)
(* test the price only and list the material with a default unit.          *)
C25_SecondaryWithoutUnitSkipped ==
    (Handled /\ Tab \in GeometryTabs) =>
       /\ \A i \in 1..Len(costed) :
            costed[i].src \in {"rail", "paint"} => Catalog[costed[i].id].unit # <<>>
       /\ \A i \in 1..Len(results) :
            results[i].src \in {"rail", "paint"} => Catalog[results[i].id].unit # <<>>

\* the length a hidden material declares, in mm: 0 when it declares none
DeclaredLength(id) ==
    IF Catalog[id].dimensions.present THEN Catalog[id].dimensions.length ELSE 0

(* C27: every hidden material a geometry tab costs is costed with the rail *)
(* length it declares (dimensions.length, a positive number of mm), and    *)
(* with the default of 3000 mm only when it declares no length; a material *)
(* that declares a length and no width is costed with its own length.      *)
(* normalizeDimensions answers length 0 for dimensions without width, so   *)
(* such a material is costed with the default.                             *)
C27_RailLengthIsDeclaredLength ==
    (Handled /\ Tab \in GeometryTabs) =>
       \A i \in 1..Len(costed) :
          costed[i].src = "rail" =>
             LET id == costed[i].id
                 railLengthMm == IF DeclaredLength(id) > 0 THEN DeclaredLength(id)
                                 ELSE RAIL_DEFAULT_LENGTH
             IN  costed[i].cost
                   = horizontalCount(data.length.n)
                     * Computed(verticalCounts, <<data.width.n, railLengthMm>>)
                     * RailWasteMilli * Catalog[id].price

\* the steps that cost a material and push its line item under their own name
OwnSteps ==
    {"finish", "rail", "insulation", "paint", "category", "option", "windowHidden", "item"}
\* (id, quantity, cost) as a line item shows a costing: both with two decimals
CostedAs(entries) ==
    [i \in 1..Len(entries) |->
       <<entries[i].id, ToFixed2(entries[i].cost \div Catalog[entries[i].id].price),
         ToFixed2(entries[i].cost)>>]
ListedAs(rs) ==
    [i \in 1..Len(rs) |->
       <<rs[i].id,
         IF rs[i].quantity.t = "number" THEN ToFixed2(rs[i].quantity.n) ELSE rs[i].quantity,
         rs[i].cost>>]
\* the costings of extraMaterials entries whose material has the given isHidden
ExtrasCosted(isHidden) ==
    SelectSeq(costed, LAMBDA e : e.src = "extra" /\ Catalog[e.id].isHidden = isHidden)

(* C29: totalCost is the sum of the costs of the costings the handler has   *)
(* made, each a positive price times a quantity and each added once; every  *)
(* line item of results shows one costing (its material, quantity and       *)
(* cost) and no costing is shown by two line items: the line items of a     *)
(* step are, in order, among the costings of that step, the line items      *)
(* processExtraMaterials pushed among the costings of visible extras and    *)
(* the ones the handler pushed from the returned list among the costings of *)
(* hidden extras.                                                           *)
C29_TotalIsSumEachCostedOnce ==
    Handled =>
       /\ totalCost = SumCosts(costed)
       /\ \A i \in 1..Len(costed) :
            /\ Catalog[costed[i].id].price > 0
            /\ costed[i].cost % Catalog[costed[i].id].price = 0
            /\ costed[i].src \in OwnSteps \cup {"extra"}
       /\ \A i \in 1..Len(results) : results[i].src \in OwnSteps \cup {"extra", "extraMerge"}
       /\ \A step \in OwnSteps :
            IsSubsequence(ListedAs(SelectSeq(results, LAMBDA r : r.src = step)),
                          CostedAs(SelectSeq(costed, LAMBDA e : e.src = step)))
       /\ IsSubsequence(ListedAs(SelectSeq(results, LAMBDA r : r.src = "extra")),
                        CostedAs(ExtrasCosted(FALSE)))
       /\ IsSubsequence(ListedAs(SelectSeq(results, LAMBDA r : r.src = "extraMerge")),
                        CostedAs(ExtrasCosted(TRUE)))

\* a wall with two costed extras, a visible one listed by processExtraMaterials and a
\* hidden one listed by the merge, or one extra declared twice and listed twice
C29_Witness ==
    /\ pc = "done" /\ HandlerCompleted /\ Tab \in GeometryTabs
    /\ Ids(costed, {"extra"}) \in {<<"f1", "f2">>, <<"f2", "f1">>, <<"f1", "f1">>}
    /\ Len(SelectSeq(results, LAMBDA r : r.src \in {"extra", "extraMerge"})) = 2
    /\ Len(costed) > 2
    /\ totalCost = SumCosts(costed)

RECURSIVE ListOf(_)
ListOf(set) ==
    IF set = {} THEN <<>>
    ELSE LET first == CHOOSE x \in set : TRUE IN <<first>> \o ListOf(set \ {first})
\* a catalog document as the data addMaterial is given to store it; price 0 and
\* quantity 0 are the numbers 0, a document without unit has no unit field
DocumentData(material) ==
    LET categories == ListOf(material.categories)
    IN  MaterialData(Str(material.name),
                     Arr([i \in 1..Len(categories) |-> Str(categories[i])]),
                     Num(material.price), Num(material.quantity),
                     IF material.unit = <<>> THEN Undef ELSE Str(material.unit),
                     IF material.dimensions.present
                     THEN Obj(Num(material.dimensions.length), Num(material.dimensions.width),
                              Num(material.dimensions.height))
                     ELSE Null,
                     Absent)
\* the finishType of the request names a material validateMaterialData accepts and
\* that declares a positive length and width
FinishAccepted ==
    /\ IsString(data.finishType)
    /\ Len(Split0(data.finishType.s)) = 1
    /\ Split0(data.finishType.s)[1] \in MaterialIds
    /\ LET material == Catalog[Split0(data.finishType.s)[1]]
       IN  /\ validateMaterialData(DocumentData(material)).success
           /\ material.dimensions.present
           /\ material.dimensions.length > 0 /\ material.dimensions.width > 0

(* C30: a material validateMaterialData accepts (price 0 is accepted) that  *)
(* declares a positive length and width can be the finishType of a geometry *)
(* tab: the handler does not reject the request with 'material missing      *)
(* price or unit'.  The handler tests !visibleMaterial.price, which is true *)
(* of the accepted price 0.                                                 *)
C30_AcceptedMaterialUsableAsFinish ==
    (Handled /\ Tab \in GeometryTabs /\ FinishAccepted)
        => ret # Rejection("material missing price or unit")

====
